---------------------------- MODULE Spec2Model ----------------------------
(***************************************************************************)
(* Coordination and caching core of the trail-counter backend:             *)
(*   - TrailManagerDO's in-process TTL cache (trail-manager.ts),           *)
(*   - the manager's storage (ID -> actor handle mappings and the          *)
(*     trail_registrations:<trailId> secondary index),                     *)
(*   - the per-entity actors TrailDO / RegistrationDO / TemplateDO,        *)
(*   - the TrailService / RegistrationService / StatisticsService handlers,*)
(*   - the debounce timers and the deferred analytics aggregation.         *)
(* Cache keys and storage keys are the program's own strings, so prefix    *)
(* matching is computed on the real key text.  Time is in milliseconds.    *)
(***************************************************************************)
EXTENDS Integers, Sequences, FiniteSets, TLC

VARIABLES
  now,          \* Date.now(), ms since the manager was constructed
  cache,        \* TrailManagerDO.cache : key -> [data, expires]
  nextCleanup,  \* next firing time of setInterval(cleanup, 60 s)
  written,      \* history: key -> the latest setInCache of that key not yet invalidated
  resp,         \* the last completed call and what it returned
  storage,      \* the manager's state.storage : key -> value
  actors,       \* actor handle -> the document under the actor's 'data' key
  issued,       \* number of IDs drawn so far, per kind (crypto.randomUUID)
  timers,       \* RegistrationService.cacheInvalidationTimers : key -> due time
  aggTimers,    \* due times of the pending setTimeout(..., 100) aggregation triggers
  aggLog,       \* history: start times of the aggregations run so far
  calls,        \* requests in flight (suspended at an await), by call number
  ops,          \* number of requests handled so far
  latest,       \* history: mapping key -> the fields its successful writes wrote
  muts          \* history: the successful registration mutations, in order

cacheVars == <<now, cache, nextCleanup, written, resp>>
coordVars == <<storage, actors, issued, timers, aggTimers, aggLog, calls, ops, latest, muts>>
vars == <<now, cache, nextCleanup, written, resp,
          storage, actors, issued, timers, aggTimers, aggLog, calls, ops, latest, muts>>

Null == "null"

\* ------------------------------------------------------------------ bounds
\* Latest clock value explored by the cache specification.
MaxClock == 60001
\* Number of 1 ms steps allowed past a multiple of TickMs.
MaxJitter == 1

\* -------------------------------------------------------- program constants
DEFAULT_CACHE_TTL_MS == 60 * 1000
CLEANUP_INTERVAL_MS == 60 * 1000
PAGINATED_TTL_MS == 30 * 1000

\* ------------------------------------------------------------------ TTLCache
\* key.startsWith(keyPrefix)
StartsWithExact(key, prefix) == key = prefix
StartsWith(key, prefix) ==
  Len(prefix) <= Len(key) /\ SubSeq(key, 1, Len(prefix)) = prefix

\* Date.now() > entry.expires
IsExpiredAtOrAfter(entry, t) == t >= entry.expires
IsExpired(entry, t) == t > entry.expires

\* What getFromCache returns: null, or the entry's data.
Miss == [hit |-> FALSE]
Hit(data) == [hit |-> TRUE, data |-> data]

\* getFromCache: the value returned
GetFromCache(c, key, t) ==
  IF key \notin DOMAIN c THEN Miss
  ELSE IF IsExpired(c[key], t) THEN Miss
  ELSE Hit(c[key].data)

\* getFromCache: the cache it leaves (an expired entry is deleted)
CacheAfterGet(c, key, t) ==
  IF key \in DOMAIN c /\ IsExpired(c[key], t)
  THEN [k \in DOMAIN c \ {key} |-> c[k]]
  ELSE c

\* setInCache
SetInCache(c, key, data, ttlMs, t) ==
  [k \in DOMAIN c \cup {key} |->
     IF k = key THEN [data |-> data, expires |-> t + ttlMs] ELSE c[k]]

\* invalidateCache
InvalidateCache(c, keyPrefix) ==
  [k \in {x \in DOMAIN c : ~StartsWith(x, keyPrefix)} |-> c[k]]

\* the cleanup closure of setupCacheCleanup
CleanupEverything(c, t) == [k \in {} |-> c[k]]
Cleanup(c, t) ==
  [k \in {x \in DOMAIN c : ~IsExpired(c[x], t)} |-> c[k]]

EmptyMap == [k \in {} |-> Null]

\* ------------------------------------------------- cache-only specification
\* Keys and prefixes the services use (IDs are fixed-length, like UUIDs).
CacheKeys ==
  { "registration:r1",
    "registrations:1:10:all:none:none:UTC" }
CachePrefixes ==
  { "all-registrations", "registrations:", "registration:r1", "registration" }
CacheValues == { "v1", "v2" }
CacheTtls == { PAGINATED_TTL_MS, DEFAULT_CACHE_TTL_MS }
TickMs == PAGINATED_TTL_MS

InitCoord ==
  /\ storage = EmptyMap
  /\ actors = EmptyMap
  /\ issued = [trail |-> 0, registration |-> 0, template |-> 0]
  /\ timers = EmptyMap
  /\ aggTimers = <<>>
  /\ aggLog = <<>>
  /\ calls = EmptyMap
  /\ ops = 0
  /\ latest = EmptyMap
  /\ muts = <<>>

InitCache ==
  /\ now = 0
  /\ cache = EmptyMap
  /\ nextCleanup = CLEANUP_INTERVAL_MS
  /\ written = EmptyMap
  /\ resp = [op |-> "init"]
  /\ InitCoord

CacheSet(key, data, ttlMs) ==
  /\ cache' = SetInCache(cache, key, data, ttlMs, now)
  /\ written' = [k \in DOMAIN written \cup {key} |->
                   IF k = key THEN [data |-> data, ttl |-> ttlMs, at |-> now]
                   ELSE written[k]]
  /\ resp' = [op |-> "setInCache", key |-> key]
  /\ UNCHANGED <<now, nextCleanup>>
  /\ UNCHANGED coordVars

CacheGet(key) ==
  /\ resp' = [op |-> "getFromCache", key |-> key, at |-> now,
               result |-> GetFromCache(cache, key, now)]
  /\ cache' = CacheAfterGet(cache, key, now)
  /\ UNCHANGED <<now, nextCleanup, written>>
  /\ UNCHANGED coordVars

CacheInvalidate(keyPrefix) ==
  /\ cache' = InvalidateCache(cache, keyPrefix)
  /\ written' = [k \in {x \in DOMAIN written :
                          ~(Len(keyPrefix) <= Len(x) /\ SubSeq(x, 1, Len(keyPrefix)) = keyPrefix)}
                   |-> written[k]]
  /\ resp' = [op |-> "invalidateCache", key |-> keyPrefix,
               removed |-> DOMAIN cache \ DOMAIN cache']
  /\ UNCHANGED <<now, nextCleanup>>
  /\ UNCHANGED coordVars

\* the interval callback: fires exactly every 60 s
CacheCleanup ==
  /\ now = nextCleanup
  /\ cache' = Cleanup(cache, now)
  /\ nextCleanup' = now + CLEANUP_INTERVAL_MS
  /\ resp' = [op |-> "cleanup", removed |-> DOMAIN cache \ DOMAIN cache']
  /\ UNCHANGED <<now, written>>
  /\ UNCHANGED coordVars

\* time passes; it never passes a due cleanup
CacheTick(d) ==
  /\ d > 0
  /\ now + d <= nextCleanup
  /\ now + d <= MaxClock
  /\ d = 1 => now % TickMs < MaxJitter
  /\ now' = now + d
  /\ UNCHANGED <<cache, nextCleanup, written, resp>>
  /\ UNCHANGED coordVars

NextCache ==
  \/ \E k \in CacheKeys, v \in CacheValues, ttl \in CacheTtls : CacheSet(k, v, ttl)
  \/ \E k \in CacheKeys : CacheGet(k)
  \/ \E p \in CachePrefixes : CacheInvalidate(p)
  \/ CacheCleanup
  \/ \E d \in {1, TickMs, nextCleanup - now} : CacheTick(d)

SpecCache == InitCache /\ [][NextCache]_vars

\* ------------------------------------------------------------ claims C1, C2
\* prefix test used by the properties, written without SubSeq
HasPrefix(k, p) == \E n \in 0..Len(k) : \E rest \in {SubSeq(k, n + 1, Len(k))} : p \o rest = k

\* The latest write of the key the last getFromCache asked for, and the time
\* elapsed between that write and the get.
C1_Written == written[resp.key]
C1_Elapsed == resp.at - C1_Written.at
C1_GetAfterSet == resp.op = "getFromCache" /\ resp.key \in DOMAIN written

\* C1 (as stated): a getFromCache after setInCache(key, value, ttl) with no
\* invalidation in between returns value while elapsed < ttl and returns absent
\* once elapsed >= ttl, exactly ttl included.
C1_AbsentFromTtlOn ==
  C1_GetAfterSet =>
    /\ C1_Elapsed < C1_Written.ttl => resp.result = Hit(C1_Written.data)
    /\ C1_Elapsed >= C1_Written.ttl => resp.result = Miss

\* C1 (amended): a getFromCache after setInCache(key, value, ttl) with no
\* invalidation in between returns value while elapsed <= ttl (exactly ttl
\* included) and returns absent once elapsed > ttl.
C1_AbsentAfterTtl ==
  C1_GetAfterSet =>
    /\ C1_Elapsed <= C1_Written.ttl => resp.result = Hit(C1_Written.data)
    /\ C1_Elapsed > C1_Written.ttl => resp.result = Miss

\* C1 witness: a get issued exactly ttl after the set still returned the value.
C1_Witness ==
  /\ C1_GetAfterSet
  /\ C1_Elapsed = C1_Written.ttl
  /\ resp.result = Hit(C1_Written.data)

\* C2: after invalidateCache(p) every key starting with p reads as absent, and
\* every entry whose key does not start with p keeps its value and its expiry.
C2_PrefixInvalidation ==
  [][resp'.op = "invalidateCache" =>
       /\ \A k \in CacheKeys :
            HasPrefix(k, resp'.key) => GetFromCache(cache', k, now') = Miss
       /\ \A k \in DOMAIN cache :
            ~HasPrefix(k, resp'.key) => k \in DOMAIN cache' /\ cache'[k] = cache[k]]_vars

\* C2 witness: invalidateCache("registrations:") removed the paginated view and
\* left the registration detail entry, whose key does not start with it.
C2_Witness ==
  /\ resp.op = "invalidateCache"
  /\ resp.key = "registrations:"
  /\ resp.removed = {"registrations:1:10:all:none:none:UTC"}
  /\ "registration:r1" \in DOMAIN cache

\* ==========================================================================
\* The coordinator: IndexStore, entity actors and the service handlers
\* ==========================================================================

\* ------------------------------------------------------------------ bounds
\* Number of trails / registrations ever created.
MaxTrails == 1
MaxRegs == 2
\* Number of requests handled in one behaviour.
MaxOps == 5
\* Latest clock value explored by the coordinator specification.
MaxTime == 2100
\* Latest clock value explored by the debounce specification.
MaxDebounceTime == 3100
\* the day the clock starts on, in days since 1970-01-01 (Monday 2024-02-26)
ClockOriginDay == 19779

\* -------------------------------------------------------- program constants
COUNT_TTL_MS == 2 * 60 * 1000
REGISTRATION_TTL_MS == 5 * 60 * 1000
NAME_MAP_TTL_MS == 5 * 60 * 1000
ANALYTICS_TTL_MS == 10 * 60 * 1000
DEBOUNCE_MS == 2000
AGGREGATION_DELAY_MS == 100

\* IDs in the order crypto.randomUUID hands them out (all of one length).
TrailIdPool == <<"t1", "t2", "t3", "t4">>
RegIdPool == <<"r1", "r2", "r3", "r4">>
TrailIds == {TrailIdPool[i] : i \in 1..MaxTrails}
RegIds == {RegIdPool[i] : i \in 1..MaxRegs}

\* one handle shared by every entity
HandleOfShared(id) == "do:shared"
\* newUniqueId().toString(): one fresh handle per created entity
HandleOf(id) == "do:" \o id

\* ---------------------------------------------------------------- storage
TrailKey(id) == "trail:" \o id
RegKey(id) == "registration:" \o id
TrailRegsKey(id) == "trail_registrations:" \o id

StoragePut(st, key, value) ==
  [k \in DOMAIN st \cup {key} |-> IF k = key THEN value ELSE st[k]]
StorageDelete(st, key) == [k \in DOMAIN st \ {key} |-> st[k]]

\* storage.list({prefix}): the keys with that prefix, in key order
AllIdsInOrder == RegIdPool \o TrailIdPool
KeyRank(key) ==
  CHOOSE i \in 1..Len(AllIdsInOrder) : AllIdsInOrder[i] = SubSeq(key, Len(key) - 1, Len(key))
RECURSIVE SortKeys(_)
SortKeys(S) ==
  IF S = {} THEN <<>>
  ELSE LET k == CHOOSE x \in S : \A y \in S : KeyRank(x) <= KeyRank(y)
       IN <<k>> \o SortKeys(S \ {k})
StorageList(st, prefix) == SortKeys({k \in DOMAIN st : StartsWith(k, prefix)})

\* trailRegistrations ? trailRegistrations.registrationIds : []
RegistrationIdsOf(st, trailId) ==
  IF TrailRegsKey(trailId) \in DOMAIN st THEN st[TrailRegsKey(trailId)] ELSE <<>>

\* ----------------------------------------------------------- entity actors
\* { ...(existingData || {}), ...data }
MergeKeepExisting(existing, data) ==
  [f \in DOMAIN existing \cup DOMAIN data |->
     IF f \in DOMAIN existing THEN existing[f] ELSE data[f]]
Merge(existing, data) ==
  [f \in DOMAIN existing \cup DOMAIN data |->
     IF f \in DOMAIN data THEN data[f] ELSE existing[f]]

Response(status, body) == [status |-> status, body |-> body]

\* TrailDO / RegistrationDO / TemplateDO GET
ActorGet(a, h, what) ==
  IF h \in DOMAIN a THEN Response(200, a[h]) ELSE Response(404, what \o " not found")

\* TrailDO.updateTrail: the document stored.  QR-code generation (an external
\* service, only for a new trail) adds image fields that no handler here reads.
TrailDO_updateTrailReplace(existing, isNew, data, t) ==
  IF isNew THEN Merge(Merge(data, [updatedAt |-> t, createdAt |-> t]),
                      IF "active" \in DOMAIN data THEN EmptyMap ELSE [active |-> TRUE])
  ELSE Merge(data, [updatedAt |-> t])
TrailDO_updateTrail(existing, isNew, data, t) ==
  LET merged == Merge(Merge(IF isNew THEN EmptyMap ELSE existing, data), [updatedAt |-> t])
  IN IF isNew
     THEN Merge(Merge(merged, [createdAt |-> t]),
                IF "active" \in DOMAIN merged THEN EmptyMap ELSE [active |-> TRUE])
     ELSE merged

\* RegistrationDO.updateRegistration: required fields of a new registration
RegistrationMissingFields(data) ==
  \/ "trailId" \notin DOMAIN data \/ data.trailId = ""
  \/ "riderName" \notin DOMAIN data \/ data.riderName = ""
  \/ "horseCount" \notin DOMAIN data \/ data.horseCount = 0

\* RegistrationDO.updateRegistration: the document stored
RegistrationDO_updateRegistration(existing, isNew, data, t) ==
  LET stamped == IF isNew /\ "timestamp" \notin DOMAIN data
                 THEN Merge(data, [timestamp |-> t]) ELSE data
  IN Merge(IF isNew THEN EmptyMap ELSE existing, stamped)

\* TemplateDO.updateTemplate: the document stored
TemplateDO_updateTemplate(existing, isNew, data, t) ==
  LET merged == Merge(Merge(IF isNew THEN EmptyMap ELSE existing, data), [updatedAt |-> t])
  IN IF isNew
     THEN Merge(Merge(merged, [createdAt |-> t]),
                Merge(IF "isDefault" \in DOMAIN merged THEN EmptyMap ELSE [isDefault |-> FALSE],
                      IF "layout" \in DOMAIN merged THEN EmptyMap ELSE [layout |-> "default"]))
     ELSE merged

\* PUT on an actor: [resp, actors]
ActorPut(a, h, kind, data, t) ==
  LET isNew == h \notin DOMAIN a
      existing == IF isNew THEN EmptyMap ELSE a[h]
  IN IF kind = "registration" /\ isNew /\ RegistrationMissingFields(data)
     THEN [resp |-> Response(400, "Missing required fields"), actors |-> a]
     ELSE LET doc == CASE kind = "trail" -> TrailDO_updateTrail(existing, isNew, data, t)
                       [] kind = "registration" ->
                            RegistrationDO_updateRegistration(existing, isNew, data, t)
                       [] OTHER -> TemplateDO_updateTemplate(existing, isNew, data, t)
          IN [resp |-> Response(200, doc),
              actors |-> [x \in DOMAIN a \cup {h} |-> IF x = h THEN doc ELSE a[x]]]

\* DELETE on an actor: [resp, actors]
ActorDelete(a, h, kind) ==
  IF h \notin DOMAIN a
  THEN [resp |-> Response(404, "not found"), actors |-> a]
  ELSE IF kind = "template" /\ a[h].isDefault
  THEN [resp |-> Response(400, "Cannot delete default template"), actors |-> a]
  ELSE [resp |-> Response(200, [success |-> TRUE]),
        actors |-> [x \in DOMAIN a \ {h} |-> a[x]]]

\* ------------------------------------------------------ history bookkeeping
\* what a caller has written so far: the fields of data replace earlier ones
Overwrite(prev, data) ==
  [f \in DOMAIN data \cup DOMAIN prev |-> IF f \notin DOMAIN data THEN prev[f] ELSE data[f]]
LatestPut(l, key, trail, fields) ==
  [k \in DOMAIN l \cup {key} |->
     IF k = key THEN [trail |-> trail, fields |-> fields] ELSE l[k]]
LatestWrite(l, key, data) ==
  [k \in DOMAIN l |->
     IF k = key THEN [trail |-> l[k].trail, fields |-> Overwrite(l[k].fields, data)] ELSE l[k]]
LatestDrop(l, keys) == [k \in DOMAIN l \ keys |-> l[k]]
Mutation(kind, registrationId, trailId, t) ==
  [kind |-> kind, id |-> registrationId, trailId |-> trailId, at |-> t]

\* ------------------------------------------------------------ TrailService
\* an invalidation that leaves an empty list under all-trails
InvalidateAllTrailCachesBlanking(c, specificTrailId) ==
  [k \in DOMAIN c \cup {"all-trails"} |->
     IF k = "all-trails" THEN [data |-> <<>>, expires |-> 0] ELSE c[k]]
\* invalidateAllTrailCaches(specificTrailId?); "" stands for no trail ID
InvalidateAllTrailCaches(c, specificTrailId) ==
  LET c1 == InvalidateCache(InvalidateCache(c, "all-trails"), "trails-name-map")
      c2 == IF specificTrailId # ""
            THEN InvalidateCache(
                   InvalidateCache(
                     InvalidateCache(c1, "trail:" \o specificTrailId),
                     "trail-reg-count:" \o specificTrailId),
                   "trail-horse-count:" \o specificTrailId)
            ELSE c1
  IN InvalidateCache(InvalidateCache(c2, "summary-statistics"), "registrations:")

\* regData.horseCount || 0, summed over the registrations of a trail's list
RECURSIVE SumHorseCounts(_, _, _)
SumHorseCounts(regIds, st, a) ==
  IF regIds = <<>> THEN 0
  ELSE LET regId == Head(regIds)
           one == IF RegKey(regId) \notin DOMAIN st THEN 0
                  ELSE IF st[RegKey(regId)] \notin DOMAIN a THEN 0
                  ELSE IF "horseCount" \in DOMAIN a[st[RegKey(regId)]]
                       THEN a[st[RegKey(regId)]].horseCount ELSE 0
       IN one + SumHorseCounts(Tail(regIds), st, a)

\* read-through of trail-reg-count:<trailId> : [value, cache]
RegCountThroughCache(c, st, trailId, t) ==
  LET key == "trail-reg-count:" \o trailId
      got == GetFromCache(c, key, t)
      c1 == CacheAfterGet(c, key, t)
      count == Len(RegistrationIdsOf(st, trailId))
  IN IF got.hit THEN [value |-> got.data, cache |-> c1]
     ELSE [value |-> count, cache |-> SetInCache(c1, key, count, COUNT_TTL_MS, t)]

\* read-through of trail-horse-count:<trailId> : [value, cache]
HorseCountThroughCache(c, st, a, trailId, t) ==
  LET key == "trail-horse-count:" \o trailId
      got == GetFromCache(c, key, t)
      c1 == CacheAfterGet(c, key, t)
      count == SumHorseCounts(RegistrationIdsOf(st, trailId), st, a)
  IN IF got.hit THEN [value |-> got.data, cache |-> c1]
     ELSE [value |-> count, cache |-> SetInCache(c1, key, count, COUNT_TTL_MS, t)]

\* getAllTrails, the fan-out over the trail mappings: [trails, cache]
RECURSIVE AllTrailsFanOut(_, _, _, _, _)
AllTrailsFanOut(keys, c, st, a, t) ==
  IF keys = <<>> THEN [trails |-> <<>>, cache |-> c]
  ELSE LET key == Head(keys)
           trailId == SubSeq(key, 7, Len(key))
           h == st[key]
           one ==
             IF h \notin DOMAIN a THEN [trails |-> <<>>, cache |-> c]
             ELSE LET rc == RegCountThroughCache(c, st, trailId, t)
                      hc == HorseCountThroughCache(rc.cache, st, a, trailId, t)
                      data == Merge(a[h], [registrationCount |-> rc.value,
                                           horseCount |-> hc.value])
                  IN [trails |-> IF a[h].active # FALSE THEN <<data>> ELSE <<>>,
                      cache |-> hc.cache]
           rest == AllTrailsFanOut(Tail(keys), one.cache, st, a, t)
       IN [trails |-> one.trails \o rest.trails, cache |-> rest.cache]

Request == ops < MaxOps /\ ops' = ops + 1

GetAllTrails ==
  /\ Request
  /\ LET got == GetFromCache(cache, "all-trails", now)
         c1 == CacheAfterGet(cache, "all-trails", now)
         fan == AllTrailsFanOut(StorageList(storage, "trail:"), c1, storage, actors, now)
     IN IF got.hit
        THEN /\ cache' = c1
             /\ resp' = [op |-> "getAllTrails", status |-> 200, body |-> got.data]
        ELSE /\ cache' = SetInCache(fan.cache, "all-trails", fan.trails, DEFAULT_CACHE_TTL_MS, now)
             /\ resp' = [op |-> "getAllTrails", status |-> 200, body |-> fan.trails]
  /\ UNCHANGED <<now, nextCleanup, written, storage, actors, issued, timers, aggTimers,
                 aggLog, calls, latest, muts>>

CreateTrail(data) ==
  /\ Request
  /\ issued.trail < MaxTrails
  /\ LET trailId == TrailIdPool[issued.trail + 1]
         h == HandleOf(trailId)
         put == ActorPut(actors, h, "trail", Merge(data, [id |-> trailId]), now)
     IN /\ storage' = StoragePut(storage, TrailKey(trailId), h)
        /\ actors' = put.actors
        /\ cache' = IF put.resp.status = 200 THEN InvalidateAllTrailCaches(cache, "")
                    ELSE cache
        /\ resp' = [op |-> "createTrail", id |-> trailId, data |-> data,
                    status |-> put.resp.status, body |-> put.resp.body]
        /\ latest' = IF put.resp.status = 200
                     THEN LatestPut(latest, TrailKey(trailId), "",
                                    Overwrite(data, [id |-> trailId]))
                     ELSE latest
  /\ issued' = [issued EXCEPT !.trail = @ + 1]
  /\ UNCHANGED <<now, nextCleanup, written, timers, aggTimers, aggLog, calls, muts>>

GetTrail(trailId) ==
  /\ Request
  /\ IF TrailKey(trailId) \notin DOMAIN storage
     THEN /\ resp' = [op |-> "getTrail", id |-> trailId, status |-> 404,
                      body |-> "Trail not found"]
          /\ cache' = cache
     ELSE LET got == ActorGet(actors, storage[TrailKey(trailId)], "Trail")
              hc == HorseCountThroughCache(cache, storage, actors, trailId, now)
          IN IF got.status = 200
             THEN /\ cache' = hc.cache
                  /\ resp' = [op |-> "getTrail", id |-> trailId, status |-> 200,
                              body |-> Merge(got.body,
                                 [registrationCount |-> Len(RegistrationIdsOf(storage, trailId)),
                                  horseCount |-> hc.value])]
             ELSE /\ cache' = cache
                  /\ resp' = [op |-> "getTrail", id |-> trailId, status |-> got.status,
                              body |-> got.body]
  /\ UNCHANGED <<now, nextCleanup, written, storage, actors, issued, timers, aggTimers,
                 aggLog, calls, latest, muts>>

UpdateTrail(trailId, data) ==
  /\ Request
  /\ IF TrailKey(trailId) \notin DOMAIN storage
     THEN /\ resp' = [op |-> "updateTrail", id |-> trailId, data |-> data, status |-> 404,
                      body |-> "Trail not found"]
          /\ UNCHANGED <<cache, actors, latest>>
     ELSE LET put == ActorPut(actors, storage[TrailKey(trailId)], "trail", data, now)
          IN /\ actors' = put.actors
             /\ latest' = IF put.resp.status = 200
                          THEN LatestWrite(latest, TrailKey(trailId), data) ELSE latest
             /\ cache' = IF put.resp.status = 200
                         THEN InvalidateAllTrailCaches(cache, trailId) ELSE cache
             /\ resp' = [op |-> "updateTrail", id |-> trailId, data |-> data,
                         status |-> put.resp.status, body |-> put.resp.body]
  /\ UNCHANGED <<now, nextCleanup, written, storage, issued, timers, aggTimers, aggLog,
                 calls, muts>>

\* deleteTrail, the loop over the trail's registrations: [storage, actors]
RECURSIVE DeleteTrailRegistrations(_, _, _)
DeleteTrailRegistrations(regIds, st, a) ==
  IF regIds = <<>> THEN [storage |-> st, actors |-> a]
  ELSE LET regId == Head(regIds)
       IN IF RegKey(regId) \notin DOMAIN st
          THEN DeleteTrailRegistrations(Tail(regIds), st, a)
          ELSE DeleteTrailRegistrations(Tail(regIds),
                 StorageDelete(st, RegKey(regId)),
                 ActorDelete(a, st[RegKey(regId)], "registration").actors)

DeleteTrail(trailId) ==
  /\ Request
  /\ IF TrailKey(trailId) \notin DOMAIN storage
     THEN /\ resp' = [op |-> "deleteTrail", id |-> trailId, status |-> 404,
                      body |-> "Trail not found"]
          /\ UNCHANGED <<cache, actors, storage, latest>>
     ELSE LET regIds == RegistrationIdsOf(storage, trailId)
              dep == DeleteTrailRegistrations(regIds, storage, actors)
              st1 == IF regIds # <<>> THEN StorageDelete(dep.storage, TrailRegsKey(trailId))
                     ELSE dep.storage
              del == ActorDelete(dep.actors, storage[TrailKey(trailId)], "trail")
          IN /\ storage' = StorageDelete(st1, TrailKey(trailId))
             /\ actors' = del.actors
             /\ cache' = IF del.resp.status = 200 THEN InvalidateAllTrailCaches(cache, "")
                         ELSE cache
             /\ resp' = [op |-> "deleteTrail", id |-> trailId, status |-> del.resp.status,
                         body |-> del.resp.body]
             /\ latest' = IF del.resp.status = 200
                          THEN LatestDrop(latest, {TrailKey(trailId)} \cup
                                 {k \in DOMAIN latest : latest[k].trail = trailId})
                          ELSE latest
  /\ UNCHANGED <<now, nextCleanup, written, issued, timers, aggTimers, aggLog, calls, muts>>

\* getTrailRegistrations, the loop over the trail's list
RECURSIVE FetchRegistrations(_, _, _)
FetchRegistrations(regIds, st, a) ==
  IF regIds = <<>> THEN <<>>
  ELSE LET regId == Head(regIds)
           one == IF RegKey(regId) \notin DOMAIN st THEN <<>>
                  ELSE IF st[RegKey(regId)] \notin DOMAIN a THEN <<>>
                  ELSE <<a[st[RegKey(regId)]]>>
       IN one \o FetchRegistrations(Tail(regIds), st, a)

GetTrailRegistrations(trailId) ==
  /\ Request
  /\ resp' = [op |-> "getTrailRegistrations", id |-> trailId, status |-> 200,
              body |-> FetchRegistrations(RegistrationIdsOf(storage, trailId), storage, actors)]
  /\ UNCHANGED <<now, cache, nextCleanup, written, storage, actors, issued, timers,
                 aggTimers, aggLog, calls, latest, muts>>

\* ----------------------------------------------------- RegistrationService
\* invalidateAllCaches(trailId), its cache part; "" stands for null
InvalidateRegistrationCachesOnly(c, trailId) ==
  InvalidateCache(InvalidateCache(InvalidateCache(c, "all-registrations"),
                                  "summary-statistics"), "registrations:")
InvalidateRegistrationCaches(c, trailId) ==
  LET c1 == InvalidateCache(
              InvalidateCache(
                InvalidateCache(
                  InvalidateCache(
                    InvalidateCache(
                      InvalidateCache(c, "all-registrations"),
                      "summary-statistics"),
                    "registrations:"),
                  "analytics-data"),
                "all-trails"),
              "trails-name-map")
  IN IF trailId # ""
     THEN InvalidateCache(
            InvalidateCache(
              InvalidateCache(c1, "trail-reg-count:" \o trailId),
              "trail-horse-count:" \o trailId),
            "trail:" \o trailId)
     ELSE c1

\* triggerAnalyticsAggregation: setTimeout(..., 100)
TriggerAnalyticsAggregationOnce(pending, t) ==
  IF pending # <<>> THEN pending ELSE Append(pending, t + AGGREGATION_DELAY_MS)
TriggerAnalyticsAggregation(pending, t) == Append(pending, t + AGGREGATION_DELAY_MS)

\* debounceInvalidateCache: clearTimeout of the key's timer, then a new one
DebounceKey(trailId) == IF trailId # "" THEN trailId ELSE "global"
DebounceInvalidateCacheKeepFirst(tm, trailId, t) ==
  [k \in DOMAIN tm \cup {DebounceKey(trailId)} |->
     IF k \in DOMAIN tm THEN tm[k] ELSE t + DEBOUNCE_MS]
DebounceInvalidateCache(tm, trailId, t) ==
  [k \in DOMAIN tm \cup {DebounceKey(trailId)} |->
     IF k = DebounceKey(trailId) THEN t + DEBOUNCE_MS ELSE tm[k]]

\* updateTrailRegistrationsMap
UpdateTrailRegistrationsMapReplace(st, trailId, registrationId) ==
  StoragePut(st, TrailRegsKey(trailId), <<registrationId>>)
UpdateTrailRegistrationsMap(st, trailId, registrationId) ==
  StoragePut(st, TrailRegsKey(trailId), Append(RegistrationIdsOf(st, trailId), registrationId))

\* createRegistration: the index is written and the timer armed only on a 200
RegistrationCreatedAlways(response) == TRUE
RegistrationCreated(response) == response.status = 200

CreateRegistration(data) ==
  /\ Request
  /\ IF "trailId" \notin DOMAIN data \/ data.trailId = ""
     THEN /\ resp' = [op |-> "createRegistration", data |-> data, status |-> 400,
                      body |-> "Trail ID is required"]
          /\ UNCHANGED <<storage, actors, issued, timers, latest, muts>>
     ELSE IF TrailKey(data.trailId) \notin DOMAIN storage
     THEN /\ resp' = [op |-> "createRegistration", data |-> data, status |-> 404,
                      body |-> "Trail not found"]
          /\ UNCHANGED <<storage, actors, issued, timers, latest, muts>>
     ELSE /\ issued.registration < MaxRegs
          /\ LET registrationId == RegIdPool[issued.registration + 1]
                 h == HandleOf(registrationId)
                 put == ActorPut(actors, h, "registration",
                                 Merge(data, [id |-> registrationId]), now)
             IN /\ actors' = put.actors
                /\ issued' = [issued EXCEPT !.registration = @ + 1]
                /\ resp' = [op |-> "createRegistration", id |-> registrationId,
                            data |-> data, status |-> put.resp.status,
                            body |-> put.resp.body]
                /\ IF RegistrationCreated(put.resp)
                   THEN /\ storage' = UpdateTrailRegistrationsMap(
                                        StoragePut(storage, RegKey(registrationId), h),
                                        data.trailId, registrationId)
                        /\ timers' = DebounceInvalidateCache(timers, data.trailId, now)
                        /\ latest' = LatestPut(latest, RegKey(registrationId), data.trailId,
                                               Overwrite(data, [id |-> registrationId]))
                        /\ muts' = Append(muts, Mutation("create", registrationId,
                                                         data.trailId, now))
                   ELSE UNCHANGED <<storage, timers, latest, muts>>
  /\ UNCHANGED <<now, cache, nextCleanup, written, aggTimers, aggLog, calls>>

\* getAllRegistrations, the fan-out over the registration mappings
RECURSIVE AllRegistrationsFanOut(_, _, _)
AllRegistrationsFanOut(keys, st, a) ==
  IF keys = <<>> THEN <<>>
  ELSE (IF st[Head(keys)] \in DOMAIN a THEN <<a[st[Head(keys)]]>> ELSE <<>>)
       \o AllRegistrationsFanOut(Tail(keys), st, a)

GetAllRegistrations ==
  /\ Request
  /\ LET got == GetFromCache(cache, "all-registrations", now)
         c1 == CacheAfterGet(cache, "all-registrations", now)
         list == AllRegistrationsFanOut(StorageList(storage, "registration:"), storage, actors)
     IN IF got.hit
        THEN /\ cache' = c1
             /\ resp' = [op |-> "getAllRegistrations", status |-> 200, body |-> got.data]
        ELSE /\ cache' = SetInCache(c1, "all-registrations", list, DEFAULT_CACHE_TTL_MS, now)
             /\ resp' = [op |-> "getAllRegistrations", status |-> 200, body |-> list]
  /\ UNCHANGED <<now, nextCleanup, written, storage, actors, issued, timers, aggTimers,
                 aggLog, calls, latest, muts>>

GetRegistration(registrationId) ==
  /\ Request
  /\ LET key == "registration:" \o registrationId
         got == GetFromCache(cache, key, now)
         c1 == CacheAfterGet(cache, key, now)
     IN IF got.hit
        THEN /\ cache' = c1
             /\ resp' = [op |-> "getRegistration", id |-> registrationId, status |-> 200,
                         body |-> got.data]
        ELSE IF RegKey(registrationId) \notin DOMAIN storage
        THEN /\ cache' = c1
             /\ resp' = [op |-> "getRegistration", id |-> registrationId, status |-> 404,
                         body |-> "Registration not found"]
        ELSE LET r == ActorGet(actors, storage[RegKey(registrationId)], "Registration")
             IN /\ cache' = IF r.status = 200
                            THEN SetInCache(c1, key, r.body, REGISTRATION_TTL_MS, now)
                            ELSE c1
                /\ resp' = [op |-> "getRegistration", id |-> registrationId,
                            status |-> r.status, body |-> r.body]
  /\ UNCHANGED <<now, nextCleanup, written, storage, actors, issued, timers, aggTimers,
                 aggLog, calls, latest, muts>>

UpdateRegistration(registrationId, data) ==
  /\ Request
  /\ IF RegKey(registrationId) \notin DOMAIN storage
     THEN /\ resp' = [op |-> "updateRegistration", id |-> registrationId, data |-> data,
                      status |-> 404, body |-> "Registration not found"]
          /\ UNCHANGED <<cache, actors, aggTimers, latest, muts>>
     ELSE LET h == storage[RegKey(registrationId)]
              original == ActorGet(actors, h, "Registration")
              origTrail == IF original.status = 200 /\ "trailId" \in DOMAIN original.body
                           THEN original.body.trailId ELSE ""
              put == ActorPut(actors, h, "registration", data, now)
              first == origTrail # ""
              second == /\ "trailId" \in DOMAIN data /\ data.trailId # ""
                        /\ original.status = 200
                        /\ data.trailId # origTrail
              c1 == IF first THEN InvalidateRegistrationCaches(cache, origTrail) ELSE cache
              a1 == IF first THEN TriggerAnalyticsAggregation(aggTimers, now) ELSE aggTimers
              c2 == IF second THEN InvalidateRegistrationCaches(c1, data.trailId) ELSE c1
              a2 == IF second THEN TriggerAnalyticsAggregation(a1, now) ELSE a1
          IN /\ actors' = put.actors
             /\ cache' = IF put.resp.status = 200 THEN c2 ELSE cache
             /\ aggTimers' = IF put.resp.status = 200 THEN a2 ELSE aggTimers
             /\ resp' = [op |-> "updateRegistration", id |-> registrationId, data |-> data,
                         trailId |-> origTrail,
                         status |-> put.resp.status, body |-> put.resp.body]
             /\ latest' = IF put.resp.status = 200
                          THEN LatestWrite(latest, RegKey(registrationId), data) ELSE latest
             /\ muts' = IF put.resp.status = 200
                        THEN Append(muts, Mutation("update", registrationId, origTrail, now))
                        ELSE muts
  /\ UNCHANGED <<now, nextCleanup, written, storage, issued, timers, aggLog, calls>>

DeleteRegistration(registrationId) ==
  /\ Request
  /\ IF RegKey(registrationId) \notin DOMAIN storage
     THEN /\ resp' = [op |-> "deleteRegistration", id |-> registrationId, status |-> 404,
                      body |-> "Registration not found"]
          /\ UNCHANGED <<cache, actors, storage, aggTimers, latest, muts>>
     ELSE LET h == storage[RegKey(registrationId)]
              got == ActorGet(actors, h, "Registration")
              trailId == IF got.status = 200 /\ "trailId" \in DOMAIN got.body
                         THEN got.body.trailId ELSE ""
              st1 == IF trailId # "" /\ TrailRegsKey(trailId) \in DOMAIN storage
                     THEN StoragePut(storage, TrailRegsKey(trailId),
                            SelectSeq(storage[TrailRegsKey(trailId)],
                                      LAMBDA id : id # registrationId))
                     ELSE storage
              del == ActorDelete(actors, h, "registration")
              inv == del.resp.status = 200 /\ trailId # ""
          IN /\ storage' = StorageDelete(st1, RegKey(registrationId))
             /\ actors' = del.actors
             /\ cache' = IF inv THEN InvalidateRegistrationCaches(cache, trailId) ELSE cache
             /\ aggTimers' = IF inv THEN TriggerAnalyticsAggregation(aggTimers, now)
                             ELSE aggTimers
             /\ resp' = [op |-> "deleteRegistration", id |-> registrationId,
                         trailId |-> trailId,
                         status |-> del.resp.status, body |-> del.resp.body]
             /\ latest' = IF del.resp.status = 200
                          THEN LatestDrop(latest, {RegKey(registrationId)}) ELSE latest
             /\ muts' = IF del.resp.status = 200
                        THEN Append(muts, Mutation("delete", registrationId, trailId, now))
                        ELSE muts
  /\ UNCHANGED <<now, nextCleanup, written, issued, timers, aggLog, calls>>

\* ------------------------------------------------- StatisticsService (part)
\* getAllTrails of the aggregator: trailId -> name ('Unknown' when empty)
TrailNameOf(st, a, trailId) ==
  IF TrailKey(trailId) \in DOMAIN st /\ st[TrailKey(trailId)] \in DOMAIN a
  THEN LET doc == a[st[TrailKey(trailId)]]
       IN IF "name" \in DOMAIN doc /\ doc.name # "" THEN doc.name ELSE "Unknown"
  ELSE "Unknown"

\* --------------------------------------------- dates of the aggregator
\* A timestamp is a number of milliseconds after midnight of the day the clock
\* starts on; ClockOriginDay is that day, in days since 1970-01-01 (19779 is
\* Monday 2024-02-26), so that new Date(timestamp) is the pair below.
MS_PER_DAY == 24 * 60 * 60 * 1000
EpochDayOf(timestamp) == ClockOriginDay + timestamp \div MS_PER_DAY
MsOfDay(timestamp) == timestamp % MS_PER_DAY

\* Math.floor in place of Math.ceil
FloorDiv(n, d) == n \div d
\* Math.ceil(n / d)
CeilDiv(n, d) == (n + d - 1) \div d

\* the Gregorian calendar of Date: leap days up to a year, the first day of a
\* year in days since 1970-01-01
LeapDaysThrough(y) == y \div 4 - y \div 100 + y \div 400
YearStart(y) == 365 * (y - 1970) + LeapDaysThrough(y - 1) - LeapDaysThrough(1969)
IsLeapYear(y) == (y % 4 = 0 /\ y % 100 # 0) \/ y % 400 = 0
MonthLengths(y) ==
  << 31, IF IsLeapYear(y) THEN 29 ELSE 28, 31, 30, 31, 30, 31, 31, 30, 31, 30, 31 >>

\* getMonthName
MonthNames ==
  << "January", "February", "March", "April", "May", "June", "July", "August",
     "September", "October", "November", "December" >>

\* date.getFullYear()
GetFullYear(timestamp) ==
  LET day == EpochDayOf(timestamp)
      guess == 1970 + day \div 366
  IN CHOOSE y \in guess..(guess + 1) : YearStart(y) <= day /\ day < YearStart(y + 1)

\* [month, day]: date.getMonth() + 1 and the day of that month
RECURSIVE MonthAndDay(_, _, _)
MonthAndDay(lengths, m, dayOfYear) ==
  IF dayOfYear < Head(lengths) THEN [month |-> m, day |-> dayOfYear + 1]
  ELSE MonthAndDay(Tail(lengths), m + 1, dayOfYear - Head(lengths))
GetMonth(timestamp, year) ==
  MonthAndDay(MonthLengths(year), 1, EpochDayOf(timestamp) - YearStart(year))

\* n.toString().padStart(2, '0')
PadStart2(n) == IF n < 10 THEN "0" \o ToString(n) ELSE ToString(n)

\* getWeekNumber: Math.ceil((pastDaysOfYear + firstDayOfYear.getDay() + 1) / 7),
\* pastDaysOfYear being a fraction of days (1970-01-01 was a Thursday, day 4).
\* The date is given as its day since 1970-01-01 and the ms into that day.
GetWeekNumberOn(epochDay, msOfDay, year) ==
  LET firstDayOfYear == YearStart(year)
      wholeDays == epochDay - firstDayOfYear
      n == wholeDays + ((firstDayOfYear + 4) % 7) + 1
  IN IF msOfDay = 0 THEN CeilDiv(n, 7) ELSE n \div 7 + 1
GetWeekNumber(timestamp, year) ==
  GetWeekNumberOn(EpochDayOf(timestamp), MsOfDay(timestamp), year)

\* the date parts getAllRegistrations formats: dateStr is
\* date.toISOString().split('T')[0], weekKey is `${year}-W${weekNum}` (the
\* week number is not padded), monthKey is
\* `${year}-${month.toString().padStart(2, '0')}`
FormatDateParts(y, md, weekNum) ==
  [date |-> y \o "-" \o PadStart2(md.month) \o "-" \o PadStart2(md.day),
   weekKey |-> y \o "-W" \o weekNum,
   weekLabel |-> y \o " Week " \o weekNum,
   monthKey |-> y \o "-" \o PadStart2(md.month),
   monthLabel |-> MonthNames[md.month] \o " " \o y]
DatePartsInYear(timestamp, year) ==
  FormatDateParts(ToString(year), GetMonth(timestamp, year),
                  ToString(GetWeekNumber(timestamp, year)))
DateParts(timestamp) == DatePartsInYear(timestamp, GetFullYear(timestamp))

\* getAllRegistrations of the aggregator: the processed registrations
\* one processed registration: the document of its actor with the trail's
\* name and the date parts
ProcessedRow(id, regData, trailId, trailName, parts) ==
  [id |-> id,
   trailId |-> trailId,
   trailName |-> trailName,
   horseCount |-> IF "horseCount" \in DOMAIN regData /\ regData.horseCount # 0
                  THEN regData.horseCount ELSE 1,
   timestamp |-> regData.timestamp,
   date |-> parts.date,
   weekKey |-> parts.weekKey,
   weekLabel |-> parts.weekLabel,
   monthKey |-> parts.monthKey,
   monthLabel |-> parts.monthLabel]
\* regData.trailId || 'unknown'
TrailIdOrUnknown(regData) ==
  IF "trailId" \in DOMAIN regData /\ regData.trailId # "" THEN regData.trailId
  ELSE "unknown"
\* trailInfo ? trailInfo.name : 'Unknown', trailInfo being trailMap.get(trailId)
TrailNameOrUnknown(st, a, trailId) ==
  IF trailId = "unknown" THEN "Unknown" ELSE TrailNameOf(st, a, trailId)
RECURSIVE ProcessedRegistrations(_, _, _)
ProcessedRegistrations(keys, st, a) ==
  IF keys = <<>> THEN <<>>
  ELSE (IF st[Head(keys)] \notin DOMAIN a THEN <<>>
        ELSE IF "timestamp" \notin DOMAIN a[st[Head(keys)]] THEN <<>>
        ELSE << ProcessedRow(SubSeq(Head(keys), 14, Len(Head(keys))),
                             a[st[Head(keys)]],
                             TrailIdOrUnknown(a[st[Head(keys)]]),
                             TrailNameOrUnknown(st, a, TrailIdOrUnknown(a[st[Head(keys)]])),
                             DateParts(a[st[Head(keys)]].timestamp)) >>)
       \o ProcessedRegistrations(Tail(keys), st, a)

RECURSIVE SumField(_, _)
SumField(list, f) == IF list = <<>> THEN 0 ELSE Head(list)[f] + SumField(Tail(list), f)

\* the totals by trail when a group keeps only its last entry
ByTrailLastOnly(regs) ==
  [n \in {regs[i].trailName : i \in 1..Len(regs)} |->
     [totalHorses |-> regs[CHOOSE i \in 1..Len(regs) :
                              /\ regs[i].trailName = n
                              /\ \A j \in (i + 1)..Len(regs) : regs[j].trailName # n].horseCount,
      totalRegistrations |-> 1]]
\* processRegistrations, the totals by trail (their quotient, the average, is
\* not kept)
ByTrail(regs) ==
  LET names == {regs[i].trailName : i \in 1..Len(regs)}
  IN [n \in names |->
        LET mine == SelectSeq(regs, LAMBDA r : r.trailName = n)
        IN [totalHorses |-> SumField(mine, "horseCount"),
            totalRegistrations |-> Len(mine)]]

\* a.localeCompare(b) on time keys: the strings are compared character by
\* character in collation order (punctuation, then digits, then letters), a
\* proper prefix first
CollationOrder == "-0123456789W"
CharRank(ch) == CHOOSE i \in 1..Len(CollationOrder) : SubSeq(CollationOrder, i, i) = ch
RECURSIVE LocaleCompare(_, _)
LocaleCompare(a, b) ==
  IF Len(a) = 0 /\ Len(b) = 0 THEN 0
  ELSE IF Len(a) = 0 THEN -1
  ELSE IF Len(b) = 0 THEN 1
  ELSE LET ca == CharRank(SubSeq(a, 1, 1))
           cb == CharRank(SubSeq(b, 1, 1))
       IN IF ca < cb THEN -1
          ELSE IF ca > cb THEN 1
          ELSE LocaleCompare(SubSeq(a, 2, Len(a)), SubSeq(b, 2, Len(b)))

\* entries.sort((a, b) => a.timeKey.localeCompare(b.timeKey)), a stable sort
RECURSIVE InsertByTimeKey(_, _)
InsertByTimeKey(sorted, entry) ==
  IF sorted = <<>> THEN << entry >>
  ELSE IF LocaleCompare(entry.timeKey, Head(sorted).timeKey) < 0
  THEN << entry >> \o sorted
  ELSE << Head(sorted) >> \o InsertByTimeKey(Tail(sorted), entry)
RECURSIVE SortByTimeKey(_)
SortByTimeKey(entries) ==
  IF entries = <<>> THEN <<>>
  ELSE InsertByTimeKey(SortByTimeKey(SubSeq(entries, 1, Len(entries) - 1)),
                       entries[Len(entries)])

\* the keys of a Map filled in a loop over regs: first occurrences, in order
RECURSIVE GroupKeys(_, _, _)
GroupKeys(regs, field, seen) ==
  IF regs = <<>> THEN <<>>
  ELSE IF Head(regs)[field] \in seen THEN GroupKeys(Tail(regs), field, seen)
  ELSE << Head(regs)[field] >>
         \o GroupKeys(Tail(regs), field, seen \cup {Head(regs)[field]})

\* the byTrail breakdown of one bucket, in the insertion order of its keys
BucketByTrail(entries) ==
  LET names == GroupKeys(entries, "trailName", {})
  IN [i \in 1..Len(names) |->
        LET mine == SelectSeq(entries, LAMBDA r : r.trailName = names[i])
        IN [trailName |-> names[i],
            horseCount |-> SumField(mine, "horseCount"),
            registrationCount |-> Len(mine)]]

\* one of the daily, weekly and monthly lists of processRegistrations: the
\* groups of the key field, mapped to entries and sorted by timeKey
TimeEntries(regs, keyField, labelField) ==
  LET keys == GroupKeys(regs, keyField, {})
      unsorted ==
        [i \in 1..Len(keys) |->
           LET entries == SelectSeq(regs, LAMBDA r : r[keyField] = keys[i])
           IN [timeKey |-> keys[i],
               label |-> Head(entries)[labelField],
               totalHorses |-> SumField(entries, "horseCount"),
               totalRegistrations |-> Len(entries),
               byTrail |-> BucketByTrail(entries)]]
  IN SortByTimeKey(unsorted)

\* processRegistrations
ProcessRegistrations(regs) ==
  [daily |-> TimeEntries(regs, "date", "date"),
   weekly |-> TimeEntries(regs, "weekKey", "weekLabel"),
   monthly |-> TimeEntries(regs, "monthKey", "monthLabel"),
   byTrail |-> ByTrail(regs)]

\* a snapshot of the totals by trail only
StampedAnalyticsTotalsOnly(groups, t) == [byTrail |-> groups.byTrail, lastUpdated |-> t]
\* analyticsData: the groupings and lastUpdated
StampedAnalytics(groups, t) ==
  [daily |-> groups.daily, weekly |-> groups.weekly, monthly |-> groups.monthly,
   byTrail |-> groups.byTrail, lastUpdated |-> t]
\* per-trail totals added to the persisted ones
AccumulatedByTrail(byTrail, before) ==
  [n \in DOMAIN byTrail |->
     [totalHorses |-> byTrail[n].totalHorses
                        + (IF n \in DOMAIN before THEN before[n].totalHorses ELSE 0),
      totalRegistrations |-> byTrail[n].totalRegistrations
                        + (IF n \in DOMAIN before THEN before[n].totalRegistrations ELSE 0)]]
AccumulatedAnalytics(groups, before, t) ==
  [daily |-> groups.daily, weekly |-> groups.weekly, monthly |-> groups.monthly,
   byTrail |-> AccumulatedByTrail(groups.byTrail, before), lastUpdated |-> t]
\* a snapshot that adds the new per-trail totals to the persisted ones
AnalyticsSnapshotAccumulating(st, a, t) ==
  AccumulatedAnalytics(
    ProcessRegistrations(ProcessedRegistrations(StorageList(st, "registration:"), st, a)),
    IF "analytics:data" \in DOMAIN st THEN st["analytics:data"].byTrail ELSE EmptyMap,
    t)
\* aggregateAnalytics: the snapshot it assembles from the trail and registration
\* actors it can read
AnalyticsSnapshot(st, a, t) ==
  StampedAnalytics(
    ProcessRegistrations(ProcessedRegistrations(StorageList(st, "registration:"), st, a)),
    t)

\* getSummaryStatistics, the fan-out over the trail mappings: [stats, cache]
RECURSIVE SummaryFanOut(_, _, _, _, _, _)
SummaryFanOut(keys, acc, c, st, a, t) ==
  IF keys = <<>> THEN [stats |-> acc, cache |-> c]
  ELSE LET key == Head(keys)
           trailId == SubSeq(key, 7, Len(key))
           h == st[key]
       IN IF h \notin DOMAIN a THEN SummaryFanOut(Tail(keys), acc, c, st, a, t)
          ELSE LET data == a[h]
                   rc == RegCountThroughCache(c, st, trailId, t)
                   name == IF "name" \in DOMAIN data /\ data.name # "" THEN data.name
                           ELSE trailId
                   acc1 == [totalTrails |-> acc.totalTrails + 1,
                            activeTrails |-> acc.activeTrails +
                               (IF "active" \in DOMAIN data /\ data.active = TRUE THEN 1 ELSE 0),
                            totalRegistrations |-> acc.totalRegistrations + rc.value,
                            registrationsByTrail |->
                               [n \in DOMAIN acc.registrationsByTrail \cup {name} |->
                                  IF n = name THEN rc.value ELSE acc.registrationsByTrail[n]]]
               IN SummaryFanOut(Tail(keys), acc1, rc.cache, st, a, t)

GetSummaryStatistics ==
  /\ Request
  /\ LET got == GetFromCache(cache, "summary-statistics", now)
         c1 == CacheAfterGet(cache, "summary-statistics", now)
         fan == SummaryFanOut(StorageList(storage, "trail:"),
                              [totalTrails |-> 0, activeTrails |-> 0, totalRegistrations |-> 0,
                               registrationsByTrail |-> EmptyMap],
                              c1, storage, actors, now)
         statistics == Merge(fan.stats, [generatedAt |-> now])
     IN IF got.hit
        THEN /\ cache' = c1
             /\ resp' = [op |-> "getSummaryStatistics", status |-> 200, body |-> got.data]
        ELSE /\ cache' = SetInCache(fan.cache, "summary-statistics", statistics,
                                    DEFAULT_CACHE_TTL_MS, now)
             /\ resp' = [op |-> "getSummaryStatistics", status |-> 200, body |-> statistics]
  /\ UNCHANGED <<now, nextCleanup, written, storage, actors, issued, timers, aggTimers,
                 aggLog, calls, latest, muts>>

\* getRegistrationData: the trail ID -> name map it builds on a cache miss
TrailsNameMap(st, a) ==
  LET ids == {SubSeq(k, 7, Len(k)) : k \in {x \in DOMAIN st : StartsWith(x, "trail:")}}
  IN [id \in {i \in ids : st[TrailKey(i)] \in DOMAIN a} |->
        LET data == a[st[TrailKey(id)]]
        IN IF "name" \in DOMAIN data /\ data.name # "" THEN data.name ELSE "Unknown"]

\* new Date(timestamp).toISOString().split('T')[0], as a day number
DayOf(timestamp) == timestamp \div MS_PER_DAY

\* getRegistrationData: the table rows, in storage.list order
RECURSIVE RegistrationRows(_, _, _, _)
RegistrationRows(keys, st, a, trailsMap) ==
  IF keys = <<>> THEN <<>>
  ELSE LET key == Head(keys)
           h == st[key]
           one == IF h \notin DOMAIN a THEN <<>>
                  ELSE LET regData == a[h]
                           hasTrail == "trailId" \in DOMAIN regData /\ regData.trailId # ""
                       IN << [id |-> SubSeq(key, 14, Len(key)),
                              date |-> DayOf(regData.timestamp),
                              trail |-> IF hasTrail /\ regData.trailId \in DOMAIN trailsMap
                                        THEN trailsMap[regData.trailId] ELSE "Unknown",
                              trailId |-> IF hasTrail THEN regData.trailId ELSE "unknown",
                              riderName |-> IF "riderName" \in DOMAIN regData
                                               /\ regData.riderName # ""
                                            THEN regData.riderName ELSE "Unknown",
                              horseCount |-> IF "horseCount" \in DOMAIN regData
                                                /\ regData.horseCount # 0
                                             THEN regData.horseCount ELSE 1,
                              timestamp |-> regData.timestamp] >>
       IN one \o RegistrationRows(Tail(keys), st, a, trailsMap)

\* registrationList.sort((a, b) => b.timestamp.localeCompare(a.timestamp)):
\* newest first, rows of one timestamp keep their order
RECURSIVE InsertNewestFirst(_, _)
InsertNewestFirst(sorted, row) ==
  IF sorted = <<>> THEN <<row>>
  ELSE IF Head(sorted).timestamp >= row.timestamp
       THEN <<Head(sorted)>> \o InsertNewestFirst(Tail(sorted), row)
       ELSE <<row>> \o sorted
RECURSIVE SortNewestFirst(_)
SortNewestFirst(rows) ==
  IF rows = <<>> THEN <<>>
  ELSE InsertNewestFirst(SortNewestFirst(SubSeq(rows, 1, Len(rows) - 1)), rows[Len(rows)])

\* Math.ceil(totalItems / limit)
Min(x, y) == IF x <= y THEN x ELSE y

\* if (page < 1) page = 1
ValidPage(page) == IF page < 1 THEN 1 ELSE page
\* if (limit < 1) limit = 10; if (limit > 100) limit = 100
ValidLimit(limit) == IF limit < 1 THEN 10 ELSE IF limit > 100 THEN 100 ELSE limit

\* the page of the sorted list and its pagination metadata
Paginate(registrationList, page, limit) ==
  LET totalItems == Len(registrationList)
      totalPages == CeilDiv(totalItems, limit)
      startIndex == (page - 1) * limit
      endIndex == Min(startIndex + limit, totalItems)
  IN [data |-> SubSeq(registrationList, startIndex + 1, endIndex),
      pagination |-> [page |-> page, limit |-> limit,
                      totalItems |-> totalItems, totalPages |-> totalPages,
                      hasNextPage |-> page < totalPages,
                      hasPrevPage |-> page > 1]]

\* getRegistrationData(page, limit) with no filter, date range or timezone
GetRegistrationData(pageIn, limitIn) ==
  /\ Request
  /\ LET page == ValidPage(pageIn)
         limit == ValidLimit(limitIn)
         cacheKey == "registrations:" \o ToString(page) \o ":" \o ToString(limit)
                       \o ":all:none:none:UTC"
         got == GetFromCache(cache, cacheKey, now)
         c1 == CacheAfterGet(cache, cacheKey, now)
         gotMap == GetFromCache(c1, "trails-name-map", now)
         c2 == CacheAfterGet(c1, "trails-name-map", now)
         trailsMap == IF gotMap.hit THEN gotMap.data ELSE TrailsNameMap(storage, actors)
         c3 == IF gotMap.hit THEN c2
               ELSE SetInCache(c2, "trails-name-map", trailsMap, NAME_MAP_TTL_MS, now)
         registrationList ==
           SortNewestFirst(RegistrationRows(StorageList(storage, "registration:"),
                                            storage, actors, trailsMap))
         response == Paginate(registrationList, page, limit)
     IN IF got.hit
        THEN /\ cache' = c1
             /\ resp' = [op |-> "getRegistrationData", status |-> 200, body |-> got.data]
        ELSE /\ cache' = SetInCache(c3, cacheKey, response, PAGINATED_TTL_MS, now)
             /\ resp' = [op |-> "getRegistrationData", status |-> 200, body |-> response]
  /\ UNCHANGED <<now, nextCleanup, written, storage, actors, issued, timers, aggTimers,
                 aggLog, calls, latest, muts>>

\* a getAnalytics that ignores the persisted snapshot
GetAnalyticsReaggregating ==
  /\ Request
  /\ LET got == GetFromCache(cache, "analytics-data", now)
         c1 == CacheAfterGet(cache, "analytics-data", now)
         fresh == AnalyticsSnapshot(storage, actors, now)
     IN IF got.hit
        THEN /\ cache' = c1
             /\ storage' = storage
             /\ resp' = [op |-> "getAnalytics", status |-> 200, body |-> got.data]
        ELSE /\ storage' = StoragePut(storage, "analytics:data", fresh)
             /\ cache' = SetInCache(c1, "analytics-data", fresh, ANALYTICS_TTL_MS, now)
             /\ resp' = [op |-> "getAnalytics", status |-> 200, body |-> fresh]
  /\ UNCHANGED <<now, nextCleanup, written, actors, issued, timers, aggTimers, aggLog, calls, latest, muts>>
\* getAnalytics
GetAnalytics ==
  /\ Request
  /\ LET got == GetFromCache(cache, "analytics-data", now)
         c1 == CacheAfterGet(cache, "analytics-data", now)
         fresh == AnalyticsSnapshot(storage, actors, now)
     IN IF got.hit
        THEN /\ cache' = c1
             /\ storage' = storage
             /\ resp' = [op |-> "getAnalytics", status |-> 200, body |-> got.data]
        ELSE IF "analytics:data" \in DOMAIN storage
        THEN /\ cache' = SetInCache(c1, "analytics-data", storage["analytics:data"],
                                    ANALYTICS_TTL_MS, now)
             /\ storage' = storage
             /\ resp' = [op |-> "getAnalytics", status |-> 200,
                         body |-> storage["analytics:data"]]
        ELSE /\ storage' = StoragePut(storage, "analytics:data", fresh)
             /\ cache' = SetInCache(c1, "analytics-data", fresh, ANALYTICS_TTL_MS, now)
             /\ resp' = [op |-> "getAnalytics", status |-> 200, body |-> fresh]
  /\ UNCHANGED <<now, nextCleanup, written, actors, issued, timers, aggTimers, aggLog, calls, latest, muts>>

\* ------------------------------------------------------------------ timers
\* the debounce callback of debounceInvalidateCache fires when it is due
DebounceFire(key) ==
  /\ key \in DOMAIN timers
  /\ timers[key] = now
  /\ cache' = InvalidateRegistrationCaches(cache, IF key = "global" THEN "" ELSE key)
  /\ aggTimers' = TriggerAnalyticsAggregation(aggTimers, now)
  /\ timers' = [k \in DOMAIN timers \ {key} |-> timers[k]]
  /\ UNCHANGED <<now, nextCleanup, written, resp, storage, actors, issued, aggLog, calls, ops, latest, muts>>

\* what can go wrong while aggregateAnalytics runs: the enumeration
\* (storage.list) or the snapshot write (storage.put) throws, or the fetch of
\* some actors throws or returns an error status
NoFault == [step |-> "none", failed |-> {}]

\* the actors whose fetch answers
Reachable(a, failed) == [h \in DOMAIN a \ failed |-> a[h]]

\* an aggregation that loses the persisted snapshot when it fails
AggregateAnalyticsLosingSnapshot(st, c, a, t, fault) ==
  IF fault.step # "none" THEN [storage |-> StorageDelete(st, "analytics:data"), cache |-> c]
  ELSE LET snapshot == AnalyticsSnapshot(st, Reachable(a, fault.failed), t)
       IN [storage |-> StoragePut(st, "analytics:data", snapshot),
           cache |-> SetInCache(c, "analytics-data", snapshot, ANALYTICS_TTL_MS, t)]
\* an aggregation that one failed fetch aborts
AggregateAnalyticsAbortOnFailure(st, c, a, t, fault) ==
  IF fault.step # "none" \/ fault.failed \cap DOMAIN a # {} THEN [storage |-> st, cache |-> c]
  ELSE LET snapshot == AnalyticsSnapshot(st, a, t)
       IN [storage |-> StoragePut(st, "analytics:data", snapshot),
           cache |-> SetInCache(c, "analytics-data", snapshot, ANALYTICS_TTL_MS, t)]
\* aggregateAnalytics: [storage, cache] after it; whatever is thrown is caught
\* and logged, and then nothing is written
AggregateAnalytics(st, c, a, t, fault) ==
  IF fault.step # "none" THEN [storage |-> st, cache |-> c]
  ELSE LET snapshot == AnalyticsSnapshot(st, Reachable(a, fault.failed), t)
       IN [storage |-> StoragePut(st, "analytics:data", snapshot),
           cache |-> SetInCache(c, "analytics-data", snapshot, ANALYTICS_TTL_MS, t)]

\* POST /aggregate
AggregateRequest(fault) ==
  /\ Request
  /\ LET done == AggregateAnalytics(storage, cache, actors, now, fault)
     IN /\ storage' = done.storage
        /\ cache' = done.cache
  /\ aggLog' = Append(aggLog, now)
  /\ resp' = [op |-> "aggregate", status |-> 200, body |-> [success |-> TRUE],
              fault |-> fault, run |-> Len(aggLog) + 1]
  /\ UNCHANGED <<now, nextCleanup, written, actors, issued, timers, aggTimers, calls,
                 latest, muts>>

\* the callback of triggerAnalyticsAggregation fires when it is due and runs
\* aggregateStatistics -> aggregateAnalytics
AggregationRun(fault) ==
  /\ aggTimers # <<>>
  /\ Head(aggTimers) = now
  /\ aggTimers' = Tail(aggTimers)
  /\ aggLog' = Append(aggLog, now)
  /\ LET done == AggregateAnalytics(storage, cache, actors, now, fault)
     IN /\ storage' = done.storage
        /\ cache' = done.cache
  /\ UNCHANGED <<now, nextCleanup, written, resp, actors, issued, timers, calls, ops, latest, muts>>
AggregationFire == AggregationRun(NoFault)

\* due times of everything pending
PendingDue == {timers[k] : k \in DOMAIN timers} \cup {aggTimers[i] : i \in 1..Len(aggTimers)}

\* time passes, up to a horizon; it never passes a pending timer
Advance(d, horizon) ==
  /\ d > 0
  /\ now + d <= horizon
  /\ \A due \in PendingDue : now + d <= due
  /\ now' = now + d
  /\ UNCHANGED <<cache, nextCleanup, written, resp, storage, actors, issued, timers,
                 aggTimers, aggLog, calls, ops, latest, muts>>
Tick(d) == Advance(d, MaxTime)

\* steps by which the clock advances: to a pending timer, or by half the
\* debounce window
StepMs == DEBOUNCE_MS \div 2
TickSteps == {StepMs} \cup {due - now : due \in PendingDue}

\* ------------------------------------------------------- request payloads
NewTrails == { [name |-> "A"] }
TrailUpdates == { [name |-> "B"], [active |-> FALSE] }
NewRegistrations ==
  { [trailId |-> t, riderName |-> "x", horseCount |-> 2] : t \in TrailIds }
    \cup { [riderName |-> "x", horseCount |-> 2], [trailId |-> "t1", riderName |-> "x"] }
RegistrationUpdates == { [horseCount |-> 5], [trailId |-> "t2"] }
Pages == { 1 }
Limits == { 10 }

\* ------------------------------------------------------------ specification
Init ==
  /\ now = 0
  /\ cache = EmptyMap
  /\ nextCleanup = CLEANUP_INTERVAL_MS
  /\ written = EmptyMap
  /\ resp = [op |-> "init"]
  /\ InitCoord

Next ==
  \/ GetAllTrails
  \/ \E data \in NewTrails : CreateTrail(data)
  \/ \E id \in TrailIds : GetTrail(id)
  \/ \E id \in TrailIds, data \in TrailUpdates : UpdateTrail(id, data)
  \/ \E id \in TrailIds : DeleteTrail(id)
  \/ \E id \in TrailIds : GetTrailRegistrations(id)
  \/ \E data \in NewRegistrations : CreateRegistration(data)
  \/ GetAllRegistrations
  \/ \E id \in RegIds : GetRegistration(id)
  \/ \E id \in RegIds, data \in RegistrationUpdates : UpdateRegistration(id, data)
  \/ \E id \in RegIds : DeleteRegistration(id)
  \/ GetSummaryStatistics
  \/ \E page \in Pages, limit \in Limits : GetRegistrationData(page, limit)
  \/ GetAnalytics
  \/ \E key \in DOMAIN timers : DebounceFire(key)
  \/ AggregationFire
  \/ \E d \in TickSteps : Tick(d)

Spec == Init /\ [][Next]_vars

\* ------------------------------------------------------------ claims C3..C8
\* a returned document carries every field the callers wrote, with its latest value
HasWrittenFields(doc, fields) ==
  \A f \in DOMAIN fields : f \in DOMAIN doc /\ doc[f] = fields[f]

\* the registrations created for a trail and not deleted since
LiveRegistrationsOf(trailId) ==
  {id \in RegIds : RegKey(id) \in DOMAIN latest /\ latest[RegKey(id)].trail = trailId}

\* C3: a getTrailRegistrations(T) started after createRegistration and any later
\* updateRegistration returned success returns exactly the registrations
\* mapped to T, each with its latest written field values.
C3_RegistrationListReadYourWrite ==
  resp.op = "getTrailRegistrations" =>
    /\ resp.status = 200
    /\ {resp.body[i].id : i \in 1..Len(resp.body)} = LiveRegistrationsOf(resp.id)
    /\ Len(resp.body) = Cardinality(LiveRegistrationsOf(resp.id))
    /\ \A i \in 1..Len(resp.body) :
         HasWrittenFields(resp.body[i], latest[RegKey(resp.body[i].id)].fields)

\* C3 witness: the list of a trail shows horseCount 5 for a registration that
\* was created with 2 and then updated.
C3_Witness ==
  /\ resp.op = "getTrailRegistrations"
  /\ Len(resp.body) >= 1
  /\ resp.body[1].horseCount = 5
  /\ \E i \in 1..Len(muts) : muts[i].kind = "update" /\ muts[i].id = resp.body[1].id

\* C4: after updateRegistration(R) returns success the cache holds no entry
\* registration:<R>, and the next getRegistration(R) returns the updated
\* document.
C4_DetailCacheInvalidated ==
  /\ (resp.op = "updateRegistration" /\ resp.status = 200)
       => ("registration:" \o resp.id) \notin DOMAIN cache
  /\ (resp.op = "getRegistration" /\ resp.status = 200 /\ RegKey(resp.id) \in DOMAIN latest)
       => HasWrittenFields(resp.body, latest[RegKey(resp.id)].fields)

\* the mapping key a get, update or delete request looks up
EntityOps == { "getTrail", "updateTrail", "deleteTrail",
               "getRegistration", "updateRegistration", "deleteRegistration" }
MappingKeyOf(r) ==
  IF r.op \in {"getTrail", "updateTrail", "deleteTrail"} THEN TrailKey(r.id) ELSE RegKey(r.id)

\* C5: a get, update or delete of an ID that has no mapping returns 404,
\* whatever the cache holds, and changes no mapping, document, index or cache
\* entry.
C5_NotFoundOnAbsentMapping ==
  [][(ops' # ops /\ resp'.op \in EntityOps /\ MappingKeyOf(resp') \notin DOMAIN storage)
       => (resp'.status = 404 /\ UNCHANGED <<storage, actors, cache>>)]_vars

\* C6: a getTrail started after createTrail or updateTrail returned 200 returns
\* 200 with every field those calls wrote, at its latest value.
C6_TrailReadYourWrite ==
  (resp.op = "getTrail" /\ TrailKey(resp.id) \in DOMAIN latest) =>
    /\ resp.status = 200
    /\ HasWrittenFields(resp.body, latest[TrailKey(resp.id)].fields)

\* C6 witness: getTrail shows the name an updateTrail wrote over the created one.
C6_Witness ==
  /\ resp.op = "getTrail"
  /\ resp.status = 200
  /\ resp.body.name = "B"
  /\ resp.body.createdAt < resp.body.updatedAt

\* cache keys under the prefixes a registration mutation of this trail affects
AffectedPrefixes(trailId) ==
  { "all-registrations", "registrations:", "summary-statistics", "all-trails",
    "trail-reg-count:" \o trailId, "trail-horse-count:" \o trailId }
AffectedKeys(c, trailId) ==
  {k \in DOMAIN c : \E p \in AffectedPrefixes(trailId) : HasPrefix(k, p)}

NextDebounce ==
  \/ \E data \in NewTrails : CreateTrail(data)
  \/ \E data \in NewRegistrations : CreateRegistration(data)
  \/ \E id \in RegIds, data \in RegistrationUpdates : UpdateRegistration(id, data)
  \/ \E id \in RegIds : DeleteRegistration(id)
  \/ \E key \in DOMAIN timers : DebounceFire(key)
  \/ AggregationFire
  \/ \E d \in TickSteps : Advance(d, MaxDebounceTime)

SpecDebounce == Init /\ [][NextDebounce]_vars

\* ----------------------------------------------------------- claims C9, C10
\* nothing is pending: every armed timer has fired
Quiescent == DOMAIN timers = {} /\ aggTimers = <<>>

\* exactly two successful registration mutations, at t = 0 and t = 1 s, on
\* registrations of one trail
TwoMutationsOneSecondApart ==
  /\ Len(muts) = 2
  /\ muts[1].at = 0
  /\ muts[2].at = 1000
  /\ muts[1].trailId = muts[2].trailId

\* C9 (as stated): two registration mutations of one trail at t=0 and t=1s, and
\* none after, start exactly one re-aggregation, and it starts at t=3s.
C9_OneAggregationAtThreeSeconds ==
  (TwoMutationsOneSecondApart /\ Quiescent /\ now >= 3000) => aggLog = <<3000>>

\* C9 (amended): two createRegistration calls for one trail at t=0 and t=1s,
\* and no other registration mutation, start exactly one re-aggregation: none
\* before t=3.1s, and the one at t=3.1s (100 ms after the debounce timer fires
\* at t=3s).
C9_TwoCreatesOneAggregation ==
  (TwoMutationsOneSecondApart /\ muts[1].kind = "create" /\ muts[2].kind = "create") =>
    /\ now < 3100 => aggLog = <<>>
    /\ Len(aggLog) <= 1
    /\ (Quiescent /\ now >= 3000) => aggLog = <<3100>>

\* C9 witness: the two creations happened and their single re-aggregation ran.
C9_Witness ==
  /\ TwoMutationsOneSecondApart
  /\ muts[1].kind = "create" /\ muts[2].kind = "create"
  /\ Quiescent
  /\ aggLog = <<3100>>

\* the successful mutations form one burst on one trail that contains an
\* update or a delete: each less than 2 s after the previous one
OneBurst ==
  /\ \E i \in 1..Len(muts) : muts[i].kind \in {"update", "delete"}
  /\ \A i \in 1..Len(muts) : muts[i].trailId = muts[1].trailId
  /\ \A i \in 1..(Len(muts) - 1) : muts[i + 1].at - muts[i].at < 2000

TriggersOf(r) ==
  IF r.op = "deleteRegistration" THEN 1
  ELSE IF "trailId" \in DOMAIN r.data /\ r.data.trailId # r.trailId THEN 2 ELSE 1

ConcurrentTrailUpdates == { [name |-> "B"], [name |-> "C", active |-> FALSE] }

\* number of PUTs the trail actors have run so far
AppliedCount == Cardinality({c \in DOMAIN calls : calls[c].stage # "sent"})

\* updateTrail up to its await of the actor: the mapping lookup, the PUT sent
UpdateTrailSend(trailId, data) ==
  /\ Request
  /\ IF TrailKey(trailId) \notin DOMAIN storage
     THEN /\ resp' = [op |-> "updateTrail", id |-> trailId, data |-> data, status |-> 404,
                      body |-> "Trail not found"]
          /\ calls' = calls
     ELSE /\ calls' = [c \in DOMAIN calls \cup {ops + 1} |->
                         IF c = ops + 1
                         THEN [id |-> trailId, handle |-> storage[TrailKey(trailId)],
                               data |-> data, stage |-> "sent", order |-> 0,
                               response |-> Response(0, "")]
                         ELSE calls[c]]
          /\ resp' = resp
  /\ UNCHANGED <<now, cache, nextCleanup, written, storage, actors, issued, timers,
                 aggTimers, aggLog, latest, muts>>

\* TrailDO.fetch (PUT) runs for one of the requests sent to it
TrailDOPut(c) ==
  /\ c \in DOMAIN calls
  /\ calls[c].stage = "sent"
  /\ LET put == ActorPut(actors, calls[c].handle, "trail", calls[c].data, now)
     IN /\ actors' = put.actors
        /\ calls' = [calls EXCEPT ![c].stage = "applied",
                                  ![c].order = AppliedCount + 1,
                                  ![c].response = put.resp]
  /\ UNCHANGED <<now, cache, nextCleanup, written, resp, storage, issued, timers,
                 aggTimers, aggLog, ops, latest, muts>>

\* updateTrail resumes with the actor's response: invalidation, then return
UpdateTrailReturn(c) ==
  /\ c \in DOMAIN calls
  /\ calls[c].stage = "applied"
  /\ cache' = IF calls[c].response.status = 200
              THEN InvalidateAllTrailCaches(cache, calls[c].id) ELSE cache
  /\ resp' = [op |-> "updateTrail", id |-> calls[c].id, data |-> calls[c].data,
              status |-> calls[c].response.status, body |-> calls[c].response.body]
  /\ latest' = IF calls[c].response.status = 200 /\ TrailKey(calls[c].id) \in DOMAIN latest
               THEN LatestWrite(latest, TrailKey(calls[c].id), calls[c].data) ELSE latest
  /\ calls' = [calls EXCEPT ![c].stage = "done"]
  /\ UNCHANGED <<now, nextCleanup, written, storage, actors, issued, timers,
                 aggTimers, aggLog, ops, muts>>

NextConc ==
  \/ \E data \in NewTrails : CreateTrail(data)
  \/ \E id \in TrailIds, data \in ConcurrentTrailUpdates : UpdateTrailSend(id, data)
  \/ \E c \in DOMAIN calls : TrailDOPut(c)
  \/ \E c \in DOMAIN calls : UpdateTrailReturn(c)
  \/ GetAllTrails
  \/ \E id \in TrailIds : GetTrail(id)
  \/ \E d \in TickSteps : Tick(d)

SpecConc == Init /\ [][NextConc]_vars

\* ----------------------------------------------------------------- claim C7
\* the updateTrail calls made on a trail, and the orders they can be put in
CallsOn(trailId) == {c \in DOMAIN calls : calls[c].id = trailId}
SerialOrders(S) ==
  {o \in [1..Cardinality(S) -> S] : \A i, j \in 1..Cardinality(S) : o[i] = o[j] => i = j}

\* the fields a caller-visible document has after the payloads of the calls
\* were merged over it one after the other, in the given order
RECURSIVE AppliedInOrder(_, _, _)
AppliedInOrder(fields, order, n) ==
  IF n = 0 THEN fields
  ELSE Overwrite(AppliedInOrder(fields, order, n - 1), calls[order[n]].data)

\* fields the trail actor sets itself
ServerStamped == {"createdAt", "updatedAt", "active"}

\* C7: when the updateTrail calls on a trail overlapped and all have returned,
\* the stored document is what merging their payloads over the created
\* document in some serial order gives: its name is the name one of the calls
\* wrote and it has no field from anywhere else.
C7_LastWriteWins ==
  \A trailId \in TrailIds :
    (/\ TrailKey(trailId) \in DOMAIN storage
     /\ CallsOn(trailId) # {}
     /\ \A c \in CallsOn(trailId) : calls[c].stage = "done")
    => LET doc == actors[storage[TrailKey(trailId)]]
       IN \E data \in NewTrails : \E order \in SerialOrders(CallsOn(trailId)) :
            LET expected == AppliedInOrder(Overwrite(data, [id |-> trailId]), order,
                                           Cardinality(CallsOn(trailId)))
            IN /\ HasWrittenFields(doc, expected)
               /\ DOMAIN doc \subseteq DOMAIN expected \cup ServerStamped
               /\ doc.name \in {calls[c].data.name : c \in CallsOn(trailId)}

\* C7 witness: two updateTrail calls on one trail were both in flight, the
\* actor ran the later one first, both returned, and the stored name is the
\* one the actor applied last.
C7_Witness ==
  \E c1, c2 \in DOMAIN calls :
    /\ c1 < c2
    /\ calls[c1].id = calls[c2].id
    /\ calls[c1].stage = "done" /\ calls[c2].stage = "done"
    /\ calls[c2].order < calls[c1].order
    /\ calls[c1].order = AppliedCount
    /\ calls[c1].data.name # calls[c2].data.name
    /\ actors[calls[c1].handle].name = calls[c1].data.name
    /\ actors[calls[c1].handle].active = FALSE

\* ======================================================== aggregation
\* registrations whose timestamp the client supplies: the day the clock starts
\* on and the same day of the week after it
DatedTimestamps == { 0, 7 * MS_PER_DAY }
DatedRegistrations ==
  { [trailId |-> "t1", riderName |-> "x", horseCount |-> 2, timestamp |-> ts] :
      ts \in DatedTimestamps }

\* the faults of one aggregation: none, one actor that cannot be fetched, the
\* enumeration or the snapshot write throwing
Faults ==
  {NoFault}
    \cup { [step |-> "none", failed |-> {HandleOf(id)}] : id \in TrailIds \cup RegIds }
    \cup { [step |-> st, failed |-> {}] : st \in {"list", "put"} }

NextAgg ==
  \/ \E data \in NewTrails : CreateTrail(data)
  \/ \E data \in DatedRegistrations : CreateRegistration(data)
  \/ \E id \in RegIds : UpdateRegistration(id, [horseCount |-> 5])
  \/ \E id \in RegIds : DeleteRegistration(id)
  \/ \E fault \in Faults : AggregateRequest(fault)
  \/ GetAnalytics
  \/ \E key \in DOMAIN timers : DebounceFire(key)
  \/ \E fault \in Faults : AggregationRun(fault)
  \/ \E d \in TickSteps : Tick(d)

SpecAgg == Init /\ [][NextAgg]_vars

\* the number a string of decimal digits writes
Digits == "0123456789"
RECURSIVE ParseInt(_)
ParseInt(str) ==
  IF Len(str) = 0 THEN 0
  ELSE 10 * ParseInt(SubSeq(str, 1, Len(str) - 1))
         + (CHOOSE d \in 0..9 : SubSeq(Digits, d + 1, d + 1) = SubSeq(str, Len(str), Len(str)))

\* the (year, week number) a week key `<year>-W<week>` names
YearOfWeekKey(timeKey) == ParseInt(SubSeq(timeKey, 1, 4))
WeekOfWeekKey(timeKey) == ParseInt(SubSeq(timeKey, 7, Len(timeKey)))

\* the persisted snapshot, once there is one
HasSnapshot == "analytics:data" \in DOMAIN storage
Snapshot == storage["analytics:data"]

\* C11: the weekly list of every persisted snapshot is ascending by the numeric
\* pair (year, week number), so the entry 2024-W9 precedes the entry 2024-W10.
C11_WeeklyAscendingNumerically ==
  HasSnapshot =>
    \A i, j \in 1..Len(Snapshot.weekly) :
      i < j =>
        LET a == Snapshot.weekly[i].timeKey
            b == Snapshot.weekly[j].timeKey
        IN \/ YearOfWeekKey(a) < YearOfWeekKey(b)
           \/ /\ YearOfWeekKey(a) = YearOfWeekKey(b)
              /\ WeekOfWeekKey(a) < WeekOfWeekKey(b)

\* the groupings of a snapshot: everything but lastUpdated
Groupings(snapshot) ==
  [daily |-> snapshot.daily, weekly |-> snapshot.weekly, monthly |-> snapshot.monthly,
   byTrail |-> snapshot.byTrail]

\* the last request was a POST /aggregate that met no fault, and no other
\* aggregation has run since
JustAggregated ==
  /\ resp.op = "aggregate"
  /\ resp.fault = NoFault
  /\ resp.run = Len(aggLog)

\* C12: a POST /aggregate that meets no fault and directly follows another one,
\* with no request and no other aggregation in between, persists the same
\* daily, weekly, monthly and byTrail groupings as the first, in the same order.
C12_IdempotentReaggregation ==
  [][ (JustAggregated /\ JustAggregated' /\ resp'.run = resp.run + 1)
        => Groupings(storage'["analytics:data"]) = Groupings(storage["analytics:data"]) ]_vars

\* two aggregations on request, before any timer fired, over registrations of
\* two different weeks
C12_Witness ==
  /\ JustAggregated
  /\ resp.run = 2
  /\ now = 0
  /\ HasSnapshot
  /\ Len(Snapshot.weekly) = 2
  /\ Snapshot.lastUpdated = 0

\* the registrations an aggregation can read when the actors in failed do not
\* answer, and the trail name each is counted under
ReadableRegs(failed) ==
  { id \in RegIds : /\ RegKey(id) \in DOMAIN storage
                    /\ storage[RegKey(id)] \in DOMAIN actors \ failed }
CountedUnder(id, failed) ==
  LET trailKey == TrailKey(actors[storage[RegKey(id)]].trailId)
  IN IF trailKey \in DOMAIN storage /\ storage[trailKey] \in DOMAIN actors \ failed
     THEN actors[storage[trailKey]].name
     ELSE "Unknown"

RECURSIVE HorsesOf(_)
HorsesOf(ids) ==
  IF ids = {} THEN 0
  ELSE LET id == CHOOSE x \in ids : TRUE
       IN actors[storage[RegKey(id)]].horseCount + HorsesOf(ids \ {id})

\* a POST /aggregate has just been answered after the fetch of exactly one
\* existing actor failed
AggregatedDespiteFailure ==
  /\ resp.op = "aggregate"
  /\ resp.run = Len(aggLog)
  /\ resp.fault.step = "none"
  /\ Cardinality(resp.fault.failed \cap DOMAIN actors) = 1

\* C13: when the fetch of one trail or registration actor fails during an
\* aggregation, the aggregation neither throws nor aborts: the request is
\* answered with success and the snapshot persisted at that moment counts,
\* per trail name and in every list of buckets, exactly the registrations of
\* the actors that answered (a registration whose trail did not answer is
\* counted under 'Unknown').
C13_BatchResilience ==
  [][ (AggregatedDespiteFailure' /\ ops' = ops + 1)
        => LET failed == resp'.fault.failed
               snap == storage'["analytics:data"]
               regs == ReadableRegs(failed)
               names == { CountedUnder(id, failed) : id \in regs }
           IN /\ resp'.status = 200
              /\ "analytics:data" \in DOMAIN storage'
              /\ snap.lastUpdated = now
              /\ DOMAIN snap.byTrail = names
              /\ \A n \in names :
                    LET mine == { id \in regs : CountedUnder(id, failed) = n }
                    IN /\ snap.byTrail[n].totalRegistrations = Cardinality(mine)
                       /\ snap.byTrail[n].totalHorses = HorsesOf(mine)
              /\ \A list \in {snap.daily, snap.weekly, snap.monthly} :
                    /\ SumField(list, "totalRegistrations") = Cardinality(regs)
                    /\ SumField(list, "totalHorses") = HorsesOf(regs) ]_vars

\* two registrations exist, the fetch of one of them failed, and the snapshot
\* just persisted counts the other one
C13_Witness ==
  /\ AggregatedDespiteFailure
  /\ Cardinality(ReadableRegs({})) = 2
  /\ Cardinality(ReadableRegs(resp.fault.failed)) = 1
  /\ HasSnapshot
  /\ Snapshot.lastUpdated = now
  /\ SumField(Snapshot.weekly, "totalRegistrations") = 1

\* ========================================================== pagination
\* The pagination of getRegistrationData as a function of the number of
\* matching registrations and of the page and limit of the request.
MaxItems == 26
PageInputs == 0..4
LimitInputs == { 0, 1, 10, 25, 100, 101 }

\* a sorted list of n matching registrations
SortedRows(n) == [i \in 1..n |-> [id |-> i]]

InitPage ==
  /\ now = 0
  /\ cache = EmptyMap
  /\ nextCleanup = CLEANUP_INTERVAL_MS
  /\ written = EmptyMap
  /\ InitCoord
  /\ \E n \in 0..MaxItems, page \in PageInputs, limit \in LimitInputs :
       resp = [op |-> "request", items |-> n, page |-> page, limit |-> limit]

PaginateRequest ==
  /\ resp.op = "request"
  /\ resp' = [op |-> "getRegistrationData", status |-> 200, items |-> resp.items,
              body |-> Paginate(SortedRows(resp.items), ValidPage(resp.page),
                                ValidLimit(resp.limit))]
  /\ UNCHANGED <<now, cache, nextCleanup, written>>
  /\ UNCHANGED coordVars

NextPage == PaginateRequest

SpecPage == InitPage /\ [][NextPage]_vars

\* C14: for N matching registrations the response carries a limit L within
\* 1..100 and a page p >= 1, totalItems = N, totalPages = ceil(N / L) (the
\* least number of pages of L items that hold N), hasNextPage = (p <
\* totalPages), hasPrevPage = (p > 1) and max(0, min(L, N - (p-1)*L)) items.
C14_PaginationArithmetic ==
  resp.op = "getRegistrationData" =>
    LET N == resp.items
        pg == resp.body.pagination
        L == pg.limit
        p == pg.page
        rest == N - (p - 1) * L
        count == IF rest < 0 THEN 0 ELSE IF rest < L THEN rest ELSE L
    IN /\ L \in 1..100
       /\ p >= 1
       /\ pg.totalItems = N
       /\ pg.totalPages * L >= N
       /\ (pg.totalPages - 1) * L < N
       /\ pg.hasNextPage = (p < pg.totalPages)
       /\ pg.hasPrevPage = (p > 1)
       /\ Len(resp.body.data) = count

\* 25 registrations, limit 10, page 1: 3 pages, a next page, no previous page,
\* 10 items
C14_Witness ==
  /\ resp.op = "getRegistrationData"
  /\ resp.items = 25
  /\ resp.body.pagination = [page |-> 1, limit |-> 10, totalItems |-> 25,
                              totalPages |-> 3, hasNextPage |-> TRUE,
                              hasPrevPage |-> FALSE]
  /\ Len(resp.body.data) = 10

\* ====================================================== TemplateService
MaxTemplates == 1
TEMPLATE_TTL_MS == 10 * 60 * 1000
TemplateIdPool == <<"p1", "p2", "p3", "p4">>
TemplateIds == {TemplateIdPool[i] : i \in 1..MaxTemplates}
TemplateKey(id) == "template:" \o id

\* the two invalidations of updateTemplate and deleteTemplate
InvalidateTemplateCaches(c, templateId) ==
  InvalidateCache(InvalidateCache(c, "all-templates"), "template:" \o templateId)

CreateTemplate(data) ==
  /\ Request
  /\ issued.template < MaxTemplates
  /\ LET templateId == TemplateIdPool[issued.template + 1]
         h == HandleOf(templateId)
         put == ActorPut(actors, h, "template", Merge(data, [id |-> templateId]), now)
     IN /\ storage' = StoragePut(storage, TemplateKey(templateId), h)
        /\ actors' = put.actors
        /\ cache' = IF put.resp.status = 200 THEN InvalidateCache(cache, "all-templates")
                    ELSE cache
        /\ resp' = [op |-> "createTemplate", id |-> templateId, data |-> data,
                    status |-> put.resp.status, body |-> put.resp.body]
  /\ issued' = [issued EXCEPT !.template = @ + 1]
  /\ UNCHANGED <<now, nextCleanup, written, timers, aggTimers, aggLog, calls, latest, muts>>

GetTemplate(templateId) ==
  /\ Request
  /\ LET key == "template:" \o templateId
         got == GetFromCache(cache, key, now)
         c1 == CacheAfterGet(cache, key, now)
     IN IF got.hit
        THEN /\ cache' = c1
             /\ resp' = [op |-> "getTemplate", id |-> templateId, status |-> 200,
                         body |-> got.data]
        ELSE IF TemplateKey(templateId) \notin DOMAIN storage
        THEN /\ cache' = c1
             /\ resp' = [op |-> "getTemplate", id |-> templateId, status |-> 404,
                         body |-> "Template not found"]
        ELSE LET r == ActorGet(actors, storage[TemplateKey(templateId)], "Template")
             IN /\ cache' = IF r.status = 200
                            THEN SetInCache(c1, key, r.body, TEMPLATE_TTL_MS, now)
                            ELSE c1
                /\ resp' = [op |-> "getTemplate", id |-> templateId,
                            status |-> r.status, body |-> r.body]
  /\ UNCHANGED <<now, nextCleanup, written, storage, actors, issued, timers, aggTimers,
                 aggLog, calls, latest, muts>>

UpdateTemplate(templateId, data) ==
  /\ Request
  /\ IF TemplateKey(templateId) \notin DOMAIN storage
     THEN /\ resp' = [op |-> "updateTemplate", id |-> templateId, data |-> data,
                      status |-> 404, body |-> "Template not found"]
          /\ UNCHANGED <<cache, actors>>
     ELSE LET put == ActorPut(actors, storage[TemplateKey(templateId)], "template", data, now)
          IN /\ actors' = put.actors
             /\ cache' = IF put.resp.status = 200
                         THEN InvalidateTemplateCaches(cache, templateId) ELSE cache
             /\ resp' = [op |-> "updateTemplate", id |-> templateId, data |-> data,
                         status |-> put.resp.status, body |-> put.resp.body]
  /\ UNCHANGED <<now, nextCleanup, written, storage, issued, timers, aggTimers, aggLog,
                 calls, latest, muts>>

DeleteTemplate(templateId) ==
  /\ Request
  /\ IF TemplateKey(templateId) \notin DOMAIN storage
     THEN /\ resp' = [op |-> "deleteTemplate", id |-> templateId, status |-> 404,
                      body |-> "Template not found"]
          /\ UNCHANGED <<cache, storage, actors>>
     ELSE LET del == ActorDelete(actors, storage[TemplateKey(templateId)], "template")
          IN /\ storage' = StorageDelete(storage, TemplateKey(templateId))
             /\ actors' = del.actors
             /\ cache' = IF del.resp.status = 200
                         THEN InvalidateTemplateCaches(cache, templateId) ELSE cache
             /\ resp' = [op |-> "deleteTemplate", id |-> templateId,
                         status |-> del.resp.status, body |-> del.resp.body]
  /\ UNCHANGED <<now, nextCleanup, written, issued, timers, aggTimers, aggLog, calls,
                 latest, muts>>

\* ============================================================ entities
\* Creation, update and deletion of the three kinds of entity, with request
\* bodies that may carry an id field of their own.
NewTrailBodies == { [name |-> "A"], [name |-> "A", id |-> "x9"] }
TrailUpdateBodies == { [name |-> "B"], [id |-> "x9"] }
NewRegistrationBodies ==
  { [trailId |-> "t1", riderName |-> "x", horseCount |-> 2],
    [trailId |-> "t1", riderName |-> "x", horseCount |-> 2, id |-> "x9"] }
RegistrationUpdateBodies == { [horseCount |-> 5], [id |-> "x9"] }
NewTemplateBodies == { [name |-> "T"], [name |-> "T", isDefault |-> TRUE] }
TemplateUpdateBodies == { [name |-> "U"] }

NextEntities ==
  \/ \E data \in NewTrailBodies : CreateTrail(data)
  \/ \E id \in TrailIds, data \in TrailUpdateBodies : UpdateTrail(id, data)
  \/ \E id \in TrailIds : DeleteTrail(id)
  \/ \E data \in NewRegistrationBodies : CreateRegistration(data)
  \/ \E id \in RegIds, data \in RegistrationUpdateBodies : UpdateRegistration(id, data)
  \/ \E id \in RegIds : DeleteRegistration(id)
  \/ \E data \in NewTemplateBodies : CreateTemplate(data)
  \/ \E id \in TemplateIds : GetTemplate(id)
  \/ \E id \in TemplateIds, data \in TemplateUpdateBodies : UpdateTemplate(id, data)
  \/ \E id \in TemplateIds : DeleteTemplate(id)
  \/ \E key \in DOMAIN timers : DebounceFire(key)
  \/ AggregationFire
  \/ \E d \in TickSteps : Tick(d)

SpecEntities == Init /\ [][NextEntities]_vars

\* ===================================================== index invariants
\* the registrations whose document's trailId is T
RegistrationsWithTrail(T) ==
  { id \in RegIds : /\ RegKey(id) \in DOMAIN storage
                    /\ storage[RegKey(id)] \in DOMAIN actors
                    /\ "trailId" \in DOMAIN actors[storage[RegKey(id)]]
                    /\ actors[storage[RegKey(id)]].trailId = T }

\* C15: between registration operations, trail_registrations:<T> lists exactly
\* the IDs of the registrations whose document's trailId is T.
C15_SecondaryIndex ==
  \A i \in 1..Len(TrailIdPool) :
    LET T == TrailIdPool[i]
        listed == RegistrationIdsOf(storage, T)
    IN { listed[k] : k \in 1..Len(listed) } = RegistrationsWithTrail(T)

\* the ID -> handle mappings of a storage, and the mapping keys of the IDs
\* drawn so far
MappingKeys(st) ==
  { k \in DOMAIN st : \/ StartsWith(k, "trail:")
                      \/ StartsWith(k, "registration:")
                      \/ StartsWith(k, "template:") }
IssuedKeys(iss) ==
  { TrailKey(TrailIdPool[i]) : i \in 1..iss.trail }
    \cup { RegKey(RegIdPool[i]) : i \in 1..iss.registration }
    \cup { TemplateKey(TemplateIdPool[i]) : i \in 1..iss.template }
CreatedKey ==
  [createTrail |-> "trail:", createRegistration |-> "registration:",
   createTemplate |-> "template:"]

\* C16: in every step, a mapping that exists before and after keeps its
\* handle; a mapping appears only in a create call, for the ID that call drew
\* and that was never mapped before; and no two IDs are mapped to one handle.
C16_HandleNeverReassigned ==
  [][ /\ \A k \in MappingKeys(storage) \cap MappingKeys(storage') :
           storage'[k] = storage[k]
      /\ \A k \in MappingKeys(storage') \ MappingKeys(storage) :
           /\ k \notin IssuedKeys(issued)
           /\ k \in IssuedKeys(issued')
           /\ resp'.op \in DOMAIN CreatedKey
           /\ k = CreatedKey[resp'.op] \o resp'.id
      /\ \A k1, k2 \in MappingKeys(storage') :
           k1 # k2 => storage'[k1] # storage'[k2] ]_vars

\* an entity of each kind is mapped and a trail update has just succeeded
C16_Witness ==
  /\ resp.op = "updateTrail"
  /\ resp.status = 200
  /\ { TrailKey("t1"), RegKey("r1"), TemplateKey("p1") } \subseteq DOMAIN storage
  /\ storage[TrailKey("t1")] = HandleOf("t1")

\* C17: the document held by the actor mapped under <kind>:<X> has id X.
C17_IdImmutable ==
  \A k \in MappingKeys(storage) :
    storage[k] \in DOMAIN actors =>
      actors[storage[k]].id = SubSeq(k, Len(k) - 1, Len(k))

\* ====================================================== cache and sources
\* the value a read that misses key k computes at time t from the storage st
\* and the actors a, given the cache c it reads the counts and names through
ReadValue(k, c, st, a, t) ==
  IF k = "all-trails"
  THEN AllTrailsFanOut(StorageList(st, "trail:"), c, st, a, t).trails
  ELSE IF k = "all-registrations"
  THEN AllRegistrationsFanOut(StorageList(st, "registration:"), st, a)
  ELSE IF k = "summary-statistics"
  THEN Merge(SummaryFanOut(StorageList(st, "trail:"),
                           [totalTrails |-> 0, activeTrails |-> 0, totalRegistrations |-> 0,
                            registrationsByTrail |-> EmptyMap], c, st, a, t).stats,
             [generatedAt |-> t])
  ELSE IF k = "trails-name-map" THEN TrailsNameMap(st, a)
  ELSE IF k = "analytics-data" THEN st["analytics:data"]
  ELSE IF StartsWith(k, "trail-reg-count:")
  THEN Len(RegistrationIdsOf(st, SubSeq(k, 17, Len(k))))
  ELSE IF StartsWith(k, "trail-horse-count:")
  THEN SumHorseCounts(RegistrationIdsOf(st, SubSeq(k, 19, Len(k))), st, a)
  ELSE IF StartsWith(k, "registration:") THEN a[st[k]]
  ELSE LET names == IF GetFromCache(c, "trails-name-map", t).hit
                    THEN c["trails-name-map"].data ELSE TrailsNameMap(st, a)
           rows == SortNewestFirst(RegistrationRows(StorageList(st, "registration:"),
                                                    st, a, names))
           pl == CHOOSE x \in Pages \X Limits :
                   k = "registrations:" \o ToString(ValidPage(x[1])) \o ":"
                         \o ToString(ValidLimit(x[2])) \o ":all:none:none:UTC"
       IN Paginate(rows, ValidPage(pl[1]), ValidLimit(pl[2]))

\* the TTL each key is cached with
TtlOf(k) ==
  IF k \in {"all-trails", "all-registrations", "summary-statistics"}
  THEN DEFAULT_CACHE_TTL_MS
  ELSE IF k = "trails-name-map" THEN NAME_MAP_TTL_MS
  ELSE IF k = "analytics-data" THEN ANALYTICS_TTL_MS
  ELSE IF StartsWith(k, "trail-reg-count:") \/ StartsWith(k, "trail-horse-count:")
  THEN COUNT_TTL_MS
  ELSE IF StartsWith(k, "registration:") THEN REGISTRATION_TTL_MS
  ELSE PAGINATED_TTL_MS

ReadOps == { "getAllTrails", "getTrail", "getAllRegistrations", "getRegistration",
             "getSummaryStatistics", "getRegistrationData", "getAnalytics" }

\* the entries a step adds to the cache or replaces in it
Filled == { k \in DOMAIN cache' : k \notin DOMAIN cache \/ cache'[k] # cache[k] }

\* C18 (as claimed): every entry that enters the cache holds the value a read
\* with an empty cache computes from the storage, the actor documents and the
\* persisted snapshot alone, so that every hit returns such a value.
C18_EntriesComeFromSources ==
  [][ \A k \in Filled :
        cache'[k].data = ReadValue(k, EmptyMap, storage', actors', now) ]_vars

\* C18 (amended): every entry that enters the cache is written by a read
\* request that missed it or by an aggregation, expires one TTL of its key
\* later, and holds the value that read computed from the storage, the actor
\* documents, the persisted snapshot and the count and name entries live in
\* the cache at that moment; no write request puts a value into the cache.
C18_EntriesComeFromReads ==
  [][ \A k \in Filled :
        /\ \/ ops' = ops + 1 /\ resp'.op \in ReadOps
           \/ aggLog' # aggLog /\ k = "analytics-data"
        /\ cache'[k].expires = now + TtlOf(k)
        /\ cache'[k].data = ReadValue(k, cache, storage', actors', now) ]_vars

\* getAllTrails has just filled all-trails with a horse count taken from the
\* count entry of the trail, which differs from the sum over the documents
C18_Witness ==
  /\ resp.op = "getAllTrails"
  /\ "all-trails" \in DOMAIN cache
  /\ cache["all-trails"].expires = now + DEFAULT_CACHE_TTL_MS
  /\ cache["all-trails"].data = resp.body
  /\ Len(resp.body) = 1
  /\ "trail-horse-count:t1" \in DOMAIN cache
  /\ resp.body[1].horseCount = cache["trail-horse-count:t1"].data
  /\ resp.body[1].horseCount
       # SumHorseCounts(RegistrationIdsOf(storage, "t1"), storage, actors)

\* =============================================== best-effort aggregation
RegistrationMutations == { "createRegistration", "updateRegistration", "deleteRegistration" }

\* the storage without the persisted snapshot
Entities(st) == [k \in DOMAIN st \ {"analytics:data"} |-> st[k]]

\* C19: a successful registration create, update or delete answers before any
\* aggregation runs (it starts none and writes no snapshot itself), and an
\* aggregation run by the timer, whether it fails at the enumeration, at an
\* actor fetch or at the snapshot write, or not at all, changes no response,
\* no document, no mapping and no debounce timer and loses no snapshot.
C19_AggregationDecoupled ==
  [][ /\ (ops' = ops + 1 /\ resp'.op \in RegistrationMutations /\ resp'.status = 200)
         => /\ aggLog' = aggLog
            /\ HasSnapshot' = HasSnapshot
            /\ HasSnapshot => storage'["analytics:data"] = Snapshot
      /\ (ops' = ops /\ aggLog' # aggLog)
         => /\ resp' = resp
            /\ actors' = actors
            /\ timers' = timers
            /\ Entities(storage') = Entities(storage)
            /\ HasSnapshot => HasSnapshot' ]_vars

\* a registration was created with success, its debounced aggregation has run
\* and failed before writing (there is no snapshot), and the last response is
\* still the success of the create
C19_Witness ==
  /\ resp.op = "createRegistration"
  /\ resp.status = 200
  /\ muts # <<>>
  /\ aggLog # <<>>
  /\ aggLog[Len(aggLog)] = muts[Len(muts)].at + DEBOUNCE_MS + AGGREGATION_DELAY_MS
  /\ ~HasSnapshot
  /\ RegKey(resp.id) \in DOMAIN storage

\* ============================================ aggregations that interleave
\* aggregateAnalytics is suspended at each of its awaits, and requests and
\* other aggregations run meanwhile. The documents an aggregation uses are fixed
\* when the actors answer its fetches; its steps 3 to 5 run when the coordinator
\* resumes it after the await of getAllRegistrations. An aggregation in flight is
\* a call between the two; readAt is the number of registration mutations its
\* reads came after.
AggregationRead ==
  /\ aggTimers # <<>>
  /\ Head(aggTimers) = now
  /\ aggTimers' = Tail(aggTimers)
  /\ aggLog' = Append(aggLog, now)
  /\ calls' = [c \in DOMAIN calls \cup {Len(aggLog) + 1} |->
                 IF c = Len(aggLog) + 1
                 THEN [stage |-> "read", readAt |-> Len(muts),
                       registrations |->
                         ProcessedRegistrations(StorageList(storage, "registration:"),
                                                storage, actors)]
                 ELSE calls[c]]
  /\ UNCHANGED <<now, cache, nextCleanup, written, resp, storage, actors, issued, timers,
                 ops, latest, muts>>

\* steps 3 to 5 and the cache fill of an aggregation in flight
AggregationWrite(c) ==
  /\ c \in DOMAIN calls
  /\ calls[c].stage = "read"
  /\ storage' = StoragePut(storage, "analytics:data",
                           StampedAnalytics(ProcessRegistrations(calls[c].registrations), now))
  /\ cache' = SetInCache(cache, "analytics-data",
                         StampedAnalytics(ProcessRegistrations(calls[c].registrations), now),
                         ANALYTICS_TTL_MS, now)
  /\ calls' = [k \in DOMAIN calls \ {c} |-> calls[k]]
  /\ UNCHANGED <<now, nextCleanup, written, resp, actors, issued, timers, aggTimers, aggLog,
                 ops, latest, muts>>

\* an update payload that clears the trail ID
ClearingUpdates == { [trailId |-> ""] }

NextInterleaved ==
  \/ \E data \in NewTrails : CreateTrail(data)
  \/ \E data \in DatedRegistrations : CreateRegistration(data)
  \/ \E id \in RegIds, data \in ClearingUpdates : UpdateRegistration(id, data)
  \/ \E id \in RegIds : DeleteRegistration(id)
  \/ \E key \in DOMAIN timers : DebounceFire(key)
  \/ AggregationRead
  \/ \E c \in DOMAIN calls : AggregationWrite(c)
  \/ \E d \in TickSteps : Advance(d, MaxDebounceTime)

SpecInterleaved == Init /\ [][NextInterleaved]_vars

\* every debounce timer has fired and every started aggregation has completed
Settled == Quiescent /\ DOMAIN calls = {}

\* the aggregation of exactly the registrations present
CurrentGroupings ==
  ProcessRegistrations(
    ProcessedRegistrations(StorageList(storage, "registration:"), storage, actors))

\* C20: when registrations were mutated, no actor call failed, every debounce
\* timer has fired and every started aggregation has completed, the snapshot
\* under analytics:data is the aggregation of exactly the registrations present
\* (so that it stays that aggregation if no mutation follows): no aggregation
\* that read older data has overwritten the result of one that read newer data.
C20_SnapshotOfFinalState ==
  (Settled /\ muts # <<>>) => (HasSnapshot /\ Groupings(Snapshot) = CurrentGroupings)

\* ================================================================== routing
\* A path is the sequence of its segments: /trails/t1 is <<"trails", "t1">>, so
\* that path.split('/') has one part more than the path has segments.
Handled(handler) == [handler |-> handler, status |-> 200]
Rejected(status) == [handler |-> "", status |-> status]

\* TrailService.handleRequest: the handler a request is routed to, or the
\* status it is rejected with
TrailService_handleRequest(path, method) ==
  IF path = <<"trails">> /\ method = "GET" THEN Handled("getAllTrails")
  ELSE IF path = <<"trails">> /\ method = "POST" THEN Handled("createTrail")
  ELSE IF Len(path) >= 3 /\ SubSeq(path, 1, 2) = <<"public", "trails">> /\ method = "GET"
  THEN Handled("getPublicTrailInfo")
  ELSE IF Len(path) < 2 THEN Rejected(400)
  ELSE IF path = <<"trails", path[2]>> /\ method = "GET" THEN Handled("getTrail")
  ELSE IF path = <<"trails", path[2]>> /\ method = "PUT" THEN Handled("updateTrail")
  ELSE IF path = <<"trails", path[2]>> /\ method = "DELETE" THEN Handled("deleteTrail")
  ELSE IF path = <<"trails", path[2], "registrations">> /\ method = "GET"
  THEN Handled("getTrailRegistrations")
  ELSE IF path = <<"trails", path[2], "generate-qr">> /\ method = "POST"
  THEN Handled("generateTrailQRCode")
  ELSE Rejected(404)

\* RegistrationService.handleRequest
RegistrationService_handleRequest(path, method) ==
  IF path = <<"public", "registrations">> /\ method = "POST" THEN Handled("createRegistration")
  ELSE IF path = <<"registrations">> /\ method = "POST" THEN Handled("createRegistration")
  ELSE IF path = <<"registrations">> /\ method = "GET" THEN Handled("getAllRegistrations")
  ELSE IF path = <<"registrations", "flush-all">> /\ method = "DELETE"
  THEN Handled("flushAllRegistrations")
  ELSE IF Len(path) < 2 THEN Rejected(400)
  ELSE IF path = <<"registrations", path[2]>> /\ method = "GET" THEN Handled("getRegistration")
  ELSE IF path = <<"registrations", path[2]>> /\ method = "PUT"
  THEN Handled("updateRegistration")
  ELSE IF path = <<"registrations", path[2]>> /\ method = "DELETE"
  THEN Handled("deleteRegistration")
  ELSE Rejected(404)

\* TemplateService.handleRequest
TemplateService_handleRequest(path, method) ==
  IF path = <<"templates">> /\ method = "GET" THEN Handled("getAllTemplates")
  ELSE IF path = <<"templates">> /\ method = "POST" THEN Handled("createTemplate")
  ELSE IF Len(path) < 2 THEN Rejected(400)
  ELSE IF path = <<"templates", path[2]>> /\ method = "GET" THEN Handled("getTemplate")
  ELSE IF path = <<"templates", path[2]>> /\ method = "PUT" THEN Handled("updateTemplate")
  ELSE IF path = <<"templates", path[2]>> /\ method = "DELETE" THEN Handled("deleteTemplate")
  ELSE Rejected(404)

\* StatisticsService.handleStatisticsRequest
handleStatisticsRequest(path, method) ==
  IF method = "GET"
  THEN (IF path[Len(path)] = "analytics" /\ Len(path) > 1 THEN Handled("getAnalytics")
        ELSE IF path[Len(path)] = "registrations" /\ Len(path) > 1
        THEN Handled("getRegistrationData")
        ELSE Handled("getSummaryStatistics"))
  ELSE IF method = "POST" /\ path[Len(path)] = "aggregate" /\ Len(path) > 1
  THEN Handled("aggregateAnalytics")
  ELSE Rejected(405)

\* TrailManagerDO.fetch: the service a path is handed to
TrailManagerDO_fetch(path, method) ==
  IF Len(path) >= 2 /\ SubSeq(path, 1, 2) = <<"public", "trails">>
  THEN TrailService_handleRequest(path, method)
  ELSE IF Len(path) >= 2 /\ SubSeq(path, 1, 2) = <<"public", "registrations">>
  THEN RegistrationService_handleRequest(path, method)
  ELSE IF path[1] = "trails" THEN TrailService_handleRequest(path, method)
  ELSE IF path[1] = "registrations" THEN RegistrationService_handleRequest(path, method)
  ELSE IF path[1] = "templates" THEN TemplateService_handleRequest(path, method)
  ELSE IF path[1] = "statistics" THEN handleStatisticsRequest(path, method)
  ELSE Rejected(404)

\* a request that no handler takes is answered by the router itself
RejectedRequest(path, method) ==
  /\ Request
  /\ TrailManagerDO_fetch(path, method).handler = ""
  /\ resp' = [op |-> "fetch", path |-> path, method |-> method,
              status |-> TrailManagerDO_fetch(path, method).status]
  /\ UNCHANGED <<now, cache, nextCleanup, written, storage, actors, issued, timers,
                 aggTimers, aggLog, calls, latest, muts>>

\* the paths some verb is supported for, and the verbs tried on them
KnownPaths ==
  { <<"trails">>, <<"trails", "t1">>, <<"trails", "t1", "registrations">>,
    <<"trails", "t1", "generate-qr">>, <<"public", "trails", "t1">>,
    <<"registrations">>, <<"public", "registrations">>, <<"registrations", "flush-all">>,
    <<"registrations", "r1">>,
    <<"templates">>, <<"templates", "p1">>,
    <<"statistics">>, <<"statistics", "analytics">>, <<"statistics", "registrations">>,
    <<"statistics", "aggregate">> }
Methods == { "GET", "POST", "PUT", "DELETE", "PATCH" }

NextRoute ==
  \/ \E data \in NewTrails : CreateTrail(data)
  \/ \E data \in NewRegistrations : CreateRegistration(data)
  \/ \E id \in TrailIds : GetTrail(id)
  \/ \E path \in KnownPaths, method \in Methods : RejectedRequest(path, method)

SpecRoute == Init /\ [][NextRoute]_vars

\* C21: a request whose path is known and whose verb is not supported for that
\* path is answered 405, whatever the kind, and changes no state.
C21_MethodNotAllowed ==
  [][ (resp'.op = "fetch" /\ ops' = ops + 1)
        => /\ resp'.status = 405
           /\ <<cache, storage, actors, timers, aggTimers>>'
                = <<cache, storage, actors, timers, aggTimers>> ]_vars

\* ------------------------------------------------- deleting a trail (C22)
\* the cached views that could include a trail or its registrations
TrailViewPrefixes(trailId) ==
  { "all-trails", "all-registrations", "registrations:", "summary-statistics",
    "analytics-data", "trail-reg-count:" \o trailId, "trail-horse-count:" \o trailId }

\* C22: when deleteTrail(T) returns success the cache holds no entry under
\* all-trails, all-registrations, registrations:, summary-statistics,
\* analytics-data, trail-reg-count:<T> or trail-horse-count:<T>.
C22_DeleteTrailInvalidatesViews ==
  [][ (ops' = ops + 1 /\ resp'.op = "deleteTrail" /\ resp'.status = 200)
        => \A k \in DOMAIN cache' :
             \A p \in TrailViewPrefixes(resp'.id) : ~StartsWith(k, p) ]_vars

\* ===================================================== batched fan-out
\* The fan-out of aggregateAnalytics, fetch by fetch. batch.map(async ...)
\* issues every fetch of a batch at once and await Promise.all(...) resumes the
\* loop when the last of them has settled; the fetches of a batch are counted,
\* not told apart.
MaxFanOutTrails == 21
MaxFanOutRegs == 101
TRAIL_BATCH_SIZE == 10
REG_BATCH_SIZE == 50

\* the loop that cuts the listed entries into batches
RECURSIVE Batches(_, _, _)
Batches(entries, batchSize, currentBatch) ==
  IF entries = <<>> THEN (IF currentBatch # <<>> THEN << currentBatch >> ELSE <<>>)
  ELSE IF Len(currentBatch) + 1 >= batchSize
  THEN << Append(currentBatch, Head(entries)) >> \o Batches(Tail(entries), batchSize, <<>>)
  ELSE Batches(Tail(entries), batchSize, Append(currentBatch, Head(entries)))

\* IDs of one length, numbered in key order
NumberedId(i) ==
  IF i < 10 THEN "00" \o ToString(i) ELSE IF i < 100 THEN "0" \o ToString(i) ELSE ToString(i)
\* storage.list({prefix}) over numbered IDs, n of them having been issued
ListNumbered(st, prefix, n) ==
  SelectSeq([i \in 1..n |-> prefix \o NumberedId(i)], LAMBDA k : k \in DOMAIN st)

\* await Promise.all(batch.map(...)): every fetch of the batch has settled
BatchSettledOnFirst(run) == run.outstanding < Len(run.current)
BatchSettled(run) == run.outstanding = 0

\* the aggregation up to its next await: the next batch of the stage is issued,
\* the registrations are listed once no trail batch is left, and the snapshot
\* is due once no registration batch is left
RECURSIVE Resume(_, _, _)
Resume(run, st, n) ==
  IF run.batches # <<>>
  THEN [run EXCEPT !.current = Head(run.batches), !.batches = Tail(run.batches),
                   !.outstanding = Len(Head(run.batches)), !.batchNo = run.batchNo + 1]
  ELSE IF run.stage = "trails"
  THEN Resume([run EXCEPT !.stage = "registrations", !.current = <<>>, !.batchNo = 0,
                          !.batches = Batches(ListNumbered(st, "registration:", n.registration),
                                              REG_BATCH_SIZE, <<>>)], st, n)
  ELSE [run EXCEPT !.stage = "write", !.current = <<>>]

\* POST /aggregate: aggregateAnalytics lists the trails and issues the first
\* batch
FanOutStart ==
  /\ Request
  /\ DOMAIN calls = {}
  /\ calls' = (ops + 1) :>
       Resume([stage |-> "trails", current |-> <<>>, outstanding |-> 0, batchNo |-> 0,
               registrations |-> <<>>,
               batches |-> Batches(ListNumbered(storage, "trail:", issued.trail),
                                   TRAIL_BATCH_SIZE, <<>>)], storage, issued)
  /\ resp' = [op |-> "aggregate", status |-> 0]
  /\ UNCHANGED <<now, cache, nextCleanup, written, storage, actors, issued, timers,
                 aggTimers, aggLog, latest, muts>>

\* one fetch of the batch in flight settles; the last one resumes the loop
FetchSettled(c) ==
  /\ c \in DOMAIN calls
  /\ calls[c].stage \in {"trails", "registrations"}
  /\ calls[c].outstanding > 0
  /\ LET run == [calls[c] EXCEPT !.outstanding = calls[c].outstanding - 1]
     IN calls' = (c :>
          IF ~BatchSettled(run) THEN run
          ELSE IF run.stage = "trails" THEN Resume(run, storage, issued)
          ELSE Resume([run EXCEPT !.registrations =
                             run.registrations
                               \o ProcessedRegistrations(run.current, storage, actors)],
                      storage, issued))
  /\ UNCHANGED <<now, cache, nextCleanup, written, resp, storage, actors, issued, timers,
                 aggTimers, aggLog, ops, latest, muts>>

\* steps 3 to 5 of aggregateAnalytics and the response to POST /aggregate
FanOutWrite(c) ==
  /\ c \in DOMAIN calls
  /\ calls[c].stage = "write"
  /\ storage' = StoragePut(storage, "analytics:data",
                           StampedAnalytics(ProcessRegistrations(calls[c].registrations), now))
  /\ cache' = SetInCache(cache, "analytics-data",
                         StampedAnalytics(ProcessRegistrations(calls[c].registrations), now),
                         ANALYTICS_TTL_MS, now)
  /\ aggLog' = Append(aggLog, now)
  /\ calls' = EmptyMap
  /\ resp' = [op |-> "aggregate", status |-> 200, body |-> [success |-> TRUE]]
  /\ UNCHANGED <<now, nextCleanup, written, actors, issued, timers, aggTimers, ops,
                 latest, muts>>

\* the populations: none, one, a full batch, one more, and two batches and one
TrailCounts == { 0, 1, TRAIL_BATCH_SIZE, TRAIL_BATCH_SIZE + 1, MaxFanOutTrails }
RegCounts == { 0, 1, REG_BATCH_SIZE, REG_BATCH_SIZE + 1, MaxFanOutRegs }

\* nT trails and nR registrations of the first trail have been created
Populated(nT, nR) ==
  /\ issued = [trail |-> nT, registration |-> nR, template |-> 0]
  /\ storage =
       [k \in {TrailKey(NumberedId(i)) : i \in 1..nT}
                \cup {RegKey(NumberedId(i)) : i \in 1..nR}
                \cup {TrailRegsKey(NumberedId(i)) : i \in 1..(IF nR > 0 THEN 1 ELSE 0)} |->
          IF StartsWith(k, "trail_registrations:") THEN [i \in 1..nR |-> NumberedId(i)]
          ELSE "do:" \o k]
  /\ actors =
       [h \in {"do:" \o TrailKey(NumberedId(i)) : i \in 1..nT}
                \cup {"do:" \o RegKey(NumberedId(i)) : i \in 1..nR} |->
          IF StartsWith(h, "do:trail:")
          THEN [id |-> SubSeq(h, 10, Len(h)), name |-> "A", active |-> TRUE]
          ELSE [id |-> SubSeq(h, 17, Len(h)), trailId |-> NumberedId(1), riderName |-> "x",
                horseCount |-> 2, timestamp |-> 0]]

InitFanOut ==
  /\ now = 0
  /\ cache = EmptyMap
  /\ nextCleanup = CLEANUP_INTERVAL_MS
  /\ written = EmptyMap
  /\ resp = [op |-> "init"]
  /\ timers = EmptyMap
  /\ aggTimers = <<>>
  /\ aggLog = <<>>
  /\ calls = EmptyMap
  /\ ops = 0
  /\ latest = EmptyMap
  /\ muts = <<>>
  /\ \E nT \in TrailCounts, nR \in RegCounts : (nR > 0 => nT > 0) /\ Populated(nT, nR)

NextFanOut ==
  \/ FanOutStart
  \/ \E c \in DOMAIN calls : FetchSettled(c)
  \/ \E c \in DOMAIN calls : FanOutWrite(c)

SpecFanOut == InitFanOut /\ [][NextFanOut]_vars

\* C23: while an aggregation reads the trails at most 10 fetches are
\* outstanding, while it reads the registrations at most 50; a batch is issued
\* only by the step that settles the last fetch of the batch before it (or by
\* the start, with nothing outstanding); and the first registration batch is
\* issued only when no trail batch is left and no trail fetch is outstanding.
C23_BoundedBatchedFanOut ==
  [][ \A c \in DOMAIN calls' :
        /\ calls'[c].stage = "trails" => calls'[c].outstanding <= 10
        /\ calls'[c].stage = "registrations" => calls'[c].outstanding <= 50
        /\ (c \in DOMAIN calls /\ calls'[c].stage = calls[c].stage
              /\ calls'[c].batchNo # calls[c].batchNo)
             => calls[c].outstanding = 1
        /\ (c \in DOMAIN calls /\ calls[c].stage = "trails" /\ calls'[c].stage # "trails")
             => (calls[c].outstanding <= 1 /\ calls[c].batches = <<>>) ]_vars

\* the third registration batch is in flight after three trail batches
C23_Witness ==
  \E c \in DOMAIN calls :
    /\ calls[c].stage = "registrations"
    /\ calls[c].batchNo = 3
    /\ calls[c].outstanding = 1
    /\ Len(calls[c].registrations) = 2 * REG_BATCH_SIZE
    /\ issued.trail > 2 * TRAIL_BATCH_SIZE

\* ------------------------------------------- the two layers of getAnalytics
\* analytics-data is cached: getFromCache would return it
AnalyticsCached ==
  "analytics-data" \in DOMAIN cache /\ ~IsExpired(cache["analytics-data"], now)

\* C24: getAnalytics returns the cached snapshot when analytics-data is cached;
\* otherwise, when a snapshot is persisted, it returns that one and caches it
\* and nothing is aggregated (the persisted snapshot stays as it is); a snapshot
\* is written by getAnalytics only when neither was there.
C24_TwoLayerRead ==
  [][ (ops' = ops + 1 /\ resp'.op = "getAnalytics")
        => /\ AnalyticsCached
                => (resp'.body = cache["analytics-data"].data /\ storage' = storage)
           /\ (~AnalyticsCached /\ HasSnapshot)
                => /\ resp'.body = Snapshot
                   /\ storage' = storage
                   /\ "analytics-data" \in DOMAIN cache'
                   /\ cache'["analytics-data"].data = Snapshot
           /\ storage' # storage => (~AnalyticsCached /\ ~HasSnapshot) ]_vars

\* getAnalytics has just answered from the persisted snapshot of an earlier
\* aggregation and cached it
C24_Witness ==
  /\ resp.op = "getAnalytics"
  /\ HasSnapshot
  /\ resp.body = Snapshot
  /\ Snapshot.lastUpdated < now
  /\ "analytics-data" \in DOMAIN cache
  /\ cache["analytics-data"] = [data |-> Snapshot, expires |-> now + ANALYTICS_TTL_MS]

\* ------------------------------------------- the snapshot, whole or not at all
SnapshotFields == { "daily", "weekly", "monthly", "byTrail", "lastUpdated" }

\* C25: whenever the value under analytics:data changes, the new value has all
\* five fields and is what one aggregation run assembles from the registrations
\* and the actors it could read; the snapshot is never removed; and a POST
\* /aggregate whose run fails before its write leaves the persisted snapshot and
\* the analytics-data cache entry as they were.
C25_SnapshotWholesale ==
  [][ /\ (HasSnapshot' /\ (HasSnapshot => storage'["analytics:data"] # Snapshot))
           => /\ DOMAIN storage'["analytics:data"] = SnapshotFields
              /\ \E fault \in Faults :
                   /\ fault.step = "none"
                   /\ storage'["analytics:data"]
                        = AnalyticsSnapshot(storage, Reachable(actors, fault.failed), now)
      /\ HasSnapshot => HasSnapshot'
      /\ (ops' = ops + 1 /\ resp'.op = "aggregate" /\ resp'.fault.step # "none")
           => /\ HasSnapshot' = HasSnapshot
              /\ HasSnapshot => storage'["analytics:data"] = Snapshot
              /\ ("analytics-data" \in DOMAIN cache') = ("analytics-data" \in DOMAIN cache)
              /\ "analytics-data" \in DOMAIN cache
                   => cache'["analytics-data"] = cache["analytics-data"] ]_vars

\* a POST /aggregate has just failed at its write while an older snapshot, no
\* longer that of the registrations present, is persisted and cached
C25_Witness ==
  /\ resp.op = "aggregate"
  /\ resp.fault.step = "put"
  /\ HasSnapshot
  /\ "analytics-data" \in DOMAIN cache
  /\ cache["analytics-data"].data = Snapshot
  /\ Groupings(Snapshot) # CurrentGroupings

\* ===================================================== failed creations
\* C26: a createRegistration answered 400 (no trailId, or the registration
\* actor's "Missing required fields") or 404 (no trail mapping) leaves the
\* coordinator's storage (no registration:<id> mapping, no list appended to),
\* the cache, the debounce timers and the actors' documents as they were.
C26_FailedCreateChangesNothing ==
  [][ (ops' = ops + 1 /\ resp'.op = "createRegistration" /\ resp'.status # 200)
        => /\ resp'.status \in {400, 404}
           /\ storage' = storage
           /\ actors' = actors
           /\ cache' = cache
           /\ timers' = timers
           /\ aggTimers' = aggTimers ]_vars

\* the actor refused a body without horseCount while the trail has a
\* registration, cached views and a pending debounce timer
C26_Witness ==
  /\ resp.op = "createRegistration"
  /\ resp.status = 400
  /\ resp.body = "Missing required fields"
  /\ "id" \in DOMAIN resp
  /\ RegKey(resp.id) \notin DOMAIN storage
  /\ \E t \in TrailIds : TrailRegsKey(t) \in DOMAIN storage /\ storage[TrailRegsKey(t)] # <<>>
  /\ DOMAIN cache # {}
  /\ DOMAIN timers # {}

\* ===================================================== deleteTrail, batch by batch
\* deleteTrail with its awaits: the registrations of the trail are deleted in
\* batches of 50, every item inside its own try/catch, then the list, the
\* mapping and the trail actor's document go. An item fails when its
\* regDO.fetch throws (the document stays) or when the storage.delete after it
\* throws (the document is gone); either way its mapping stays.
DELETE_BATCH_SIZE == 50

CascadeCounts == { 0, 1, DELETE_BATCH_SIZE, DELETE_BATCH_SIZE + 1, MaxFanOutRegs }

NoItemFailed == [failed |-> {}, step |-> "none"]
BatchFaults(batch) ==
  { NoItemFailed } \cup { [failed |-> {batch[i]}, step |-> s] :
                       i \in {1, Len(batch)}, s \in {"fetch", "delete"} }

\* the items of a batch whose storage.get finds a mapping
MappedItems(batch, st) ==
  { r \in { batch[i] : i \in 1..Len(batch) } : RegKey(r) \in DOMAIN st }
\* the documents of `fetched` and the mappings of `done` are deleted
BatchOutcome(st, a, fetched, done) ==
  [storage |-> [k \in DOMAIN st \ { RegKey(r) : r \in done } |-> st[k]],
   actors |-> [h \in DOMAIN a \ { st[RegKey(r)] : r \in fetched } |-> a[h]]]

\* await Promise.all(batch.map(async (regId) => { try ... catch ... })):
\* [storage, actors]
DeleteRegistrationBatchAborting(batch, fault, st, a) ==
  IF fault.failed = {}
  THEN BatchOutcome(st, a, MappedItems(batch, st), MappedItems(batch, st))
  ELSE [storage |-> st, actors |-> a]
DeleteRegistrationBatch(batch, fault, st, a) ==
  BatchOutcome(st, a,
               IF fault.step = "delete" THEN MappedItems(batch, st)
               ELSE MappedItems(batch, st) \ fault.failed,
               MappedItems(batch, st) \ fault.failed)

\* deleteTrail up to its first batch
DeleteTrailStart(trailId) ==
  /\ Request
  /\ DOMAIN calls = {}
  /\ IF TrailKey(trailId) \notin DOMAIN storage
     THEN /\ resp' = [op |-> "deleteTrail", id |-> trailId, status |-> 404,
                      body |-> "Trail not found", regIds |-> <<>>, failed |-> {}]
          /\ calls' = calls
     ELSE /\ calls' = (ops + 1) :>
               [trailId |-> trailId, handle |-> storage[TrailKey(trailId)],
                regIds |-> RegistrationIdsOf(storage, trailId),
                batches |-> Batches(RegistrationIdsOf(storage, trailId),
                                    DELETE_BATCH_SIZE, <<>>),
                failed |-> {}]
          /\ resp' = resp
  /\ UNCHANGED <<now, cache, nextCleanup, written, storage, actors, issued, timers,
                 aggTimers, aggLog, latest, muts>>

\* one batch settles, some item of it possibly having failed
DeleteTrailBatch(c, fault) ==
  /\ c \in DOMAIN calls
  /\ calls[c].batches # <<>>
  /\ fault \in BatchFaults(Head(calls[c].batches))
  /\ LET dep == DeleteRegistrationBatch(Head(calls[c].batches), fault, storage, actors)
     IN /\ storage' = dep.storage
        /\ actors' = dep.actors
  /\ calls' = (c :> [calls[c] EXCEPT !.batches = Tail(calls[c].batches),
                                     !.failed = calls[c].failed \cup fault.failed])
  /\ UNCHANGED <<now, cache, nextCleanup, written, resp, issued, timers, aggTimers,
                 aggLog, ops, latest, muts>>

\* after the last batch: the list, the mapping, the trail actor, the caches
DeleteTrailFinish(c) ==
  /\ c \in DOMAIN calls
  /\ calls[c].batches = <<>>
  /\ LET trailId == calls[c].trailId
         st1 == IF calls[c].regIds # <<>> THEN StorageDelete(storage, TrailRegsKey(trailId))
                ELSE storage
         del == ActorDelete(actors, calls[c].handle, "trail")
     IN /\ storage' = StorageDelete(st1, TrailKey(trailId))
        /\ actors' = del.actors
        /\ cache' = IF del.resp.status = 200 THEN InvalidateAllTrailCaches(cache, "")
                    ELSE cache
        /\ resp' = [op |-> "deleteTrail", id |-> trailId, status |-> del.resp.status,
                    body |-> del.resp.body, regIds |-> calls[c].regIds,
                    failed |-> calls[c].failed]
  /\ calls' = EmptyMap
  /\ UNCHANGED <<now, nextCleanup, written, issued, timers, aggTimers, aggLog, ops,
                 latest, muts>>

InitCascade ==
  /\ now = 0
  /\ cache = EmptyMap
  /\ nextCleanup = CLEANUP_INTERVAL_MS
  /\ written = EmptyMap
  /\ resp = [op |-> "init"]
  /\ timers = EmptyMap
  /\ aggTimers = <<>>
  /\ aggLog = <<>>
  /\ calls = EmptyMap
  /\ ops = 0
  /\ latest = EmptyMap
  /\ muts = <<>>
  /\ \E nR \in CascadeCounts : Populated(1, nR)

NextCascade ==
  \/ DeleteTrailStart(NumberedId(1))
  \/ \E c \in { x \in DOMAIN calls : calls[x].batches # <<>> } :
       \E fault \in BatchFaults(Head(calls[c].batches)) : DeleteTrailBatch(c, fault)
  \/ \E c \in DOMAIN calls : DeleteTrailFinish(c)

SpecCascade == InitCascade /\ [][NextCascade]_vars

\* C27: when deleteTrail returns after the deletion of some of the trail's
\* registrations failed, every other registration of its list has lost its
\* mapping and its document, trail_registrations:<T> and trail:<T> are gone,
\* the trail actor's document is gone, and the response is the actor's 200.
C27_DeleteTrailToleratesFailures ==
  [][ (DOMAIN calls # {} /\ DOMAIN calls' = {} /\ resp'.failed # {})
        => /\ \A i \in 1..Len(resp'.regIds) :
                resp'.regIds[i] \notin resp'.failed
                  => /\ RegKey(resp'.regIds[i]) \notin DOMAIN storage'
                     /\ ("do:" \o RegKey(resp'.regIds[i])) \notin DOMAIN actors'
           /\ TrailRegsKey(resp'.id) \notin DOMAIN storage'
           /\ TrailKey(resp'.id) \notin DOMAIN storage'
           /\ ("do:" \o TrailKey(resp'.id)) \notin DOMAIN actors'
           /\ resp'.status = 200
           /\ resp'.body = [success |-> TRUE] ]_vars

\* deleteTrail has returned 200 after a failure in the first and in the
\* second of three batches
C27_Witness ==
  /\ resp.op = "deleteTrail"
  /\ resp.status = 200
  /\ Len(resp.regIds) > 2 * DELETE_BATCH_SIZE
  /\ resp.failed = { NumberedId(1), NumberedId(DELETE_BATCH_SIZE + 1) }
  /\ RegKey(NumberedId(1)) \in DOMAIN storage
  /\ RegKey(NumberedId(2)) \notin DOMAIN storage
  /\ RegKey(resp.regIds[Len(resp.regIds)]) \notin DOMAIN storage

\* ===================================================== the actors' put
\* PUT on one actor of each kind, over payloads that name ordinary fields, the
\* creation stamp and updatedAt.
PutKinds == { "trail", "registration", "template" }
PutHandle(kind) == "do:" \o kind
PutPayloads(kind) ==
  CASE kind = "trail" ->
         { [name |-> "A"], [name |-> "B", active |-> FALSE],
           [createdAt |-> 500], [updatedAt |-> 500] }
    [] kind = "registration" ->
         { [trailId |-> "t1", riderName |-> "x", horseCount |-> 2],
           [trailId |-> "t1", riderName |-> "x", horseCount |-> 2,
            timestamp |-> 500],
           [horseCount |-> 5], [riderName |-> "y", timestamp |-> 500] }
    [] OTHER ->
         { [name |-> "T"], [name |-> "U", isDefault |-> TRUE],
           [createdAt |-> 500], [updatedAt |-> 500] }

\* fetch(PUT) on the actor of the kind
PutDocument(kind, data) ==
  /\ Request
  /\ LET put == ActorPut(actors, PutHandle(kind), kind, data, now)
     IN /\ actors' = put.actors
        /\ resp' = [op |-> "put", kind |-> kind, data |-> data,
                    isNew |-> PutHandle(kind) \notin DOMAIN actors,
                    status |-> put.resp.status, body |-> put.resp.body]
  /\ UNCHANGED <<now, cache, nextCleanup, written, storage, issued, timers, aggTimers,
                 aggLog, calls, latest, muts>>

NextPut ==
  \/ \E kind \in PutKinds : \E data \in PutPayloads(kind) : PutDocument(kind, data)
  \/ Tick(StepMs)

SpecPut == Init /\ [][NextPut]_vars

\* the creation stamp of a kind
CreationStamp(kind) == IF kind = "registration" THEN "timestamp" ELSE "createdAt"
\* the fields a put stamps whatever the payload says
StampedOnPut(kind) == IF kind = "registration" THEN {} ELSE {"updatedAt"}

\* a put of payload p on the actor of the kind has just been stored
PutStored == ops' = ops + 1 /\ resp'.op = "put" /\ resp'.status = 200

\* the creation stamp is there after the first write, is the time of the write
\* when the payload does not supply it, and is kept by a later put that does
\* not supply it
CreationStampKept ==
  LET h == PutHandle(resp'.kind)
      stamp == CreationStamp(resp'.kind)
  IN /\ stamp \in DOMAIN actors'[h]
     /\ (resp'.isNew /\ stamp \notin DOMAIN resp'.data) => actors'[h][stamp] = now
     /\ (~resp'.isNew /\ stamp \notin DOMAIN resp'.data) => actors'[h][stamp] = actors[h][stamp]

\* C28 as stated: after a put of p on an existing document d the stored
\* document has every field of p with p's value and every other field with
\* d's value, and the creation stamp is set by the first write and kept by
\* later puts that do not supply it.
C28_MergeEveryField ==
  [][ PutStored
        => /\ ~resp'.isNew
             => LET d == actors[PutHandle(resp'.kind)]
                    r == actors'[PutHandle(resp'.kind)]
                    p == resp'.data
                IN /\ DOMAIN r = DOMAIN d \cup DOMAIN p
                   /\ \A f \in DOMAIN r : r[f] = IF f \in DOMAIN p THEN p[f] ELSE d[f]
           /\ CreationStampKept ]_vars

\* C28, amended: the same for every field but updatedAt, which a put on a
\* trail or a template sets to the time of the put.
C28_MergeButUpdatedAt ==
  [][ PutStored
        => /\ ~resp'.isNew
             => LET d == actors[PutHandle(resp'.kind)]
                    r == actors'[PutHandle(resp'.kind)]
                    p == resp'.data
                IN /\ DOMAIN r = DOMAIN d \cup DOMAIN p
                   /\ \A f \in DOMAIN r \ StampedOnPut(resp'.kind) :
                        r[f] = IF f \in DOMAIN p THEN p[f] ELSE d[f]
                   /\ \A f \in StampedOnPut(resp'.kind) : r[f] = now
           /\ CreationStampKept ]_vars

\* a later put has renamed a trail created earlier: its createdAt is the time of
\* the first write and its updatedAt the time of this one
C28_Witness ==
  /\ resp.op = "put"
  /\ resp.kind = "trail"
  /\ resp.status = 200
  /\ ~resp.isNew
  /\ resp.data = [name |-> "B", active |-> FALSE]
  /\ actors[PutHandle("trail")].name = "B"
  /\ actors[PutHandle("trail")].createdAt < now
  /\ actors[PutHandle("trail")].updatedAt = now

\* ===================================================== expired entries
\* C29: a getFromCache on a key whose entry's expiry time has passed deletes
\* that entry and leaves every other entry as it was; one run of the sweep
\* deletes every entry whose expiry time has passed and leaves every other
\* entry as it was, so that right after it no entry of the cache is past its
\* expiry time. An entry is past its expiry time when the clock is greater
\* than the time it was set plus its ttl.
C29_ExpiredEntryRemoval ==
  [][ /\ (now' = now /\ resp'.op = "getFromCache")
           => /\ (resp'.key \in DOMAIN cache /\ now > cache[resp'.key].expires)
                   => resp'.key \notin DOMAIN cache'
              /\ \A k \in DOMAIN cache :
                   (k # resp'.key \/ now <= cache[k].expires)
                     => (k \in DOMAIN cache' /\ cache'[k] = cache[k])
              /\ DOMAIN cache' \subseteq DOMAIN cache
      /\ (now' = now /\ resp'.op = "cleanup" /\ nextCleanup' # nextCleanup)
           => /\ \A k \in DOMAIN cache :
                   IF now > cache[k].expires THEN k \notin DOMAIN cache'
                   ELSE k \in DOMAIN cache' /\ cache'[k] = cache[k]
              /\ DOMAIN cache' \subseteq DOMAIN cache
              /\ \A k \in DOMAIN cache' : now' <= cache'[k].expires ]_vars

\* the sweep has just removed an entry set 30 s or more ago with a 30 s ttl and
\* kept one that expires at this very millisecond
C29_Witness ==
  /\ resp.op = "cleanup"
  /\ resp.removed = {"registrations:1:10:all:none:none:UTC"}
  /\ "registration:r1" \in DOMAIN cache
  /\ cache["registration:r1"].expires = now

\* ===================================================== overlapping creations
\* createRegistration with its awaits: the actor's PUT, then the mapping put
\* together with the read of the trail's list, then the put of the list. Every
\* await is a point where another request of the coordinator may run.

\* updateTrailRegistrationsMap after its read: the list as it was read, with
\* the new ID pushed, is put
PutListOfOne(st, trailId, list, registrationId) ==
  StoragePut(st, TrailRegsKey(trailId), <<registrationId>>)
PutList(st, trailId, list, registrationId) ==
  StoragePut(st, TrailRegsKey(trailId), Append(list, registrationId))

\* createRegistration up to the fetch of the registration actor
CreateRegistrationSend(data) ==
  /\ Request
  /\ IF "trailId" \notin DOMAIN data \/ data.trailId = ""
     THEN /\ resp' = [op |-> "createRegistration", data |-> data, status |-> 400,
                      body |-> "Trail ID is required"]
          /\ UNCHANGED <<issued, calls>>
     ELSE IF TrailKey(data.trailId) \notin DOMAIN storage
     THEN /\ resp' = [op |-> "createRegistration", data |-> data, status |-> 404,
                      body |-> "Trail not found"]
          /\ UNCHANGED <<issued, calls>>
     ELSE /\ issued.registration < MaxRegs
          /\ issued' = [issued EXCEPT !.registration = @ + 1]
          /\ calls' = [c \in DOMAIN calls \cup {ops + 1} |->
                         IF c = ops + 1
                         THEN [id |-> RegIdPool[issued.registration + 1],
                               trailId |-> data.trailId,
                               handle |-> HandleOf(RegIdPool[issued.registration + 1]),
                               data |-> data, stage |-> "sent",
                               response |-> Response(0, ""),
                               list |-> <<>>, readAt |-> 0, putAt |-> 0]
                         ELSE calls[c]]
          /\ resp' = resp
  /\ UNCHANGED <<now, cache, nextCleanup, written, storage, actors, timers, aggTimers,
                 aggLog, latest, muts>>

\* RegistrationDO.fetch (PUT) runs for one of the requests sent to it
RegistrationDOPut(c) ==
  /\ c \in DOMAIN calls
  /\ calls[c].stage = "sent"
  /\ LET put == ActorPut(actors, calls[c].handle, "registration",
                         Merge(calls[c].data, [id |-> calls[c].id]), now)
     IN /\ actors' = put.actors
        /\ calls' = [calls EXCEPT ![c].stage = "applied", ![c].response = put.resp]
  /\ UNCHANGED <<now, cache, nextCleanup, written, resp, storage, issued, timers,
                 aggTimers, aggLog, ops, latest, muts>>

\* createRegistration resumes with the actor's response: on a 200 the mapping
\* is put and updateTrailRegistrationsMap reads the list; otherwise it returns
CreateRegistrationRead(c) ==
  /\ c \in DOMAIN calls
  /\ calls[c].stage = "applied"
  /\ IF RegistrationCreated(calls[c].response)
     THEN /\ storage' = StoragePut(storage, RegKey(calls[c].id), calls[c].handle)
          /\ calls' = [calls EXCEPT ![c].stage = "read",
                                    ![c].list = RegistrationIdsOf(storage, calls[c].trailId),
                                    ![c].readAt = Len(muts)]
          /\ resp' = resp
     ELSE /\ storage' = storage
          /\ calls' = [calls EXCEPT ![c].stage = "done"]
          /\ resp' = [op |-> "createRegistration", id |-> calls[c].id,
                      data |-> calls[c].data, status |-> calls[c].response.status,
                      body |-> calls[c].response.body]
  /\ UNCHANGED <<now, cache, nextCleanup, written, actors, issued, timers, aggTimers,
                 aggLog, ops, latest, muts>>

\* updateTrailRegistrationsMap puts the list; then the debounce and the return
CreateRegistrationAppend(c) ==
  /\ c \in DOMAIN calls
  /\ calls[c].stage = "read"
  /\ storage' = PutList(storage, calls[c].trailId, calls[c].list, calls[c].id)
  /\ timers' = DebounceInvalidateCache(timers, calls[c].trailId, now)
  /\ muts' = Append(muts, Mutation("create", calls[c].id, calls[c].trailId, now))
  /\ calls' = [calls EXCEPT ![c].stage = "done", ![c].putAt = Len(muts) + 1]
  /\ resp' = [op |-> "createRegistration", id |-> calls[c].id, data |-> calls[c].data,
              status |-> calls[c].response.status, body |-> calls[c].response.body]
  /\ UNCHANGED <<now, cache, nextCleanup, written, actors, issued, aggTimers, aggLog,
                 ops, latest>>

NextOverlap ==
  \/ \E data \in NewTrails : CreateTrail(data)
  \/ \E data \in NewRegistrations : CreateRegistrationSend(data)
  \/ \E c \in DOMAIN calls : RegistrationDOPut(c)
  \/ \E c \in DOMAIN calls : CreateRegistrationRead(c)
  \/ \E c \in DOMAIN calls : CreateRegistrationAppend(c)
  \/ \E d \in TickSteps : Tick(d)

SpecOverlap == Init /\ [][NextOverlap]_vars

\* the createRegistration calls that have returned 200
Created == { c \in DOMAIN calls : calls[c].stage = "done" /\ calls[c].putAt > 0 }
\* the ID of the call is not in its trail's list
AppendLost(c) ==
  \A i \in 1..Len(RegistrationIdsOf(storage, calls[c].trailId)) :
    RegistrationIdsOf(storage, calls[c].trailId)[i] # calls[c].id
\* the call `other` read the list before `c` put it and put it after `c` did
Overlapped(c, other) ==
  /\ calls[other].trailId = calls[c].trailId
  /\ calls[other].readAt < calls[c].putAt
  /\ calls[c].putAt < calls[other].putAt

WeekFirstDay == YearStart(2024)
MaxWeekDays == 1827
WeekDayTimes == { 0, 1, MS_PER_DAY - 1 }

\* date.getFullYear() of a day since 1970-01-01
FullYearOn(epochDay) ==
  CHOOSE y \in (1970 + epochDay \div 366)..(1971 + epochDay \div 366) :
    YearStart(y) <= epochDay /\ epochDay < YearStart(y + 1)

\* the week number of one date is computed
WeekNumberOf(epochDay, msOfDay) ==
  /\ resp' = [op |-> "getWeekNumber", day |-> epochDay, ms |-> msOfDay,
              year |-> FullYearOn(epochDay),
              week |-> GetWeekNumberOn(epochDay, msOfDay, FullYearOn(epochDay))]
  /\ UNCHANGED <<now, cache, nextCleanup, written, storage, actors, issued, timers,
                 aggTimers, aggLog, calls, ops, latest, muts>>

\* the dates are taken in order, one day after the other
NextWeekDay == IF resp.op = "getWeekNumber" THEN resp.day + 1 ELSE WeekFirstDay

NextWeek ==
  /\ NextWeekDay < WeekFirstDay + MaxWeekDays
  /\ \E ms \in WeekDayTimes : WeekNumberOf(NextWeekDay, ms)

SpecWeek == Init /\ [][NextWeek]_vars

\* C31: for a date on day d of its year (whole days since Jan 1), at any time
\* of the day, getWeekNumber is ceil((d + dayOfWeek(Jan 1) + 1) / 7), and it is
\* between 1 and 54.
C31_WeekOfWholeDays ==
  resp.op = "getWeekNumber" =>
    /\ resp.week = CeilDiv((resp.day - YearStart(resp.year))
                             + ((YearStart(resp.year) + 4) % 7) + 1, 7)
    /\ resp.week >= 1
    /\ resp.week <= 54

\* ===================================================== aggregation totals
\* processRegistrations over lists of processed registrations of two trails,
\* on Monday 2024-02-26, the day after, Friday 2024-03-01 (same week, next
\* month) and Monday 2024-03-04 (next week).
MaxInputRows == 3
InputDays == { 0, 1, 4, 7 }
InputRows ==
  { ProcessedRow("r", [horseCount |-> tr.horseCount, timestamp |-> d * MS_PER_DAY],
                 tr.trailId, tr.trailName, DateParts(d * MS_PER_DAY)) :
      tr \in { [trailId |-> "t1", trailName |-> "A", horseCount |-> 1],
               [trailId |-> "t1", trailName |-> "A", horseCount |-> 3],
               [trailId |-> "t2", trailName |-> "B", horseCount |-> 2] },
      d \in InputDays }

\* the list handed to processRegistrations
InputList == IF 1 \in DOMAIN calls THEN calls[1].registrations ELSE <<>>

\* one more processed registration comes out of the fan-out
AddInputRow(row) ==
  /\ Len(InputList) < MaxInputRows
  /\ calls' = (1 :> [registrations |-> Append(InputList, row)])
  /\ UNCHANGED <<now, cache, nextCleanup, written, resp, storage, actors, issued, timers,
                 aggTimers, aggLog, ops, latest, muts>>

\* processRegistrations(registrations)
ProcessInput ==
  /\ resp' = [op |-> "processRegistrations", input |-> InputList,
              result |-> ProcessRegistrations(InputList)]
  /\ UNCHANGED <<now, cache, nextCleanup, written, storage, actors, issued, timers,
                 aggTimers, aggLog, calls, ops, latest, muts>>

NextTotals ==
  \/ \E row \in InputRows : AddInputRow(row)
  \/ ProcessInput

SpecTotals == Init /\ [][NextTotals]_vars

\* the sum of a field over the entries of the byTrail record
RECURSIVE SumOverTrails(_, _, _)
SumOverTrails(byTrail, names, f) ==
  IF names = {} THEN 0
  ELSE LET n == CHOOSE x \in names : TRUE
       IN byTrail[n][f] + SumOverTrails(byTrail, names \ {n}, f)

\* C32: for every input list, totalRegistrations summed over the daily, over
\* the weekly, over the monthly buckets and over byTrail is the number of
\* inputs, totalHorses summed the same ways is the sum of the inputs'
\* horseCount, and inside every time bucket the per-trail horseCount and
\* registrationCount sum to the bucket's totalHorses and totalRegistrations.
C32_TotalsConserved ==
  resp.op = "processRegistrations" =>
    /\ \A list \in { resp.result.daily, resp.result.weekly, resp.result.monthly } :
         /\ SumField(list, "totalRegistrations") = Len(resp.input)
         /\ SumField(list, "totalHorses") = SumField(resp.input, "horseCount")
         /\ \A i \in 1..Len(list) :
              /\ SumField(list[i].byTrail, "horseCount") = list[i].totalHorses
              /\ SumField(list[i].byTrail, "registrationCount") = list[i].totalRegistrations
    /\ SumOverTrails(resp.result.byTrail, DOMAIN resp.result.byTrail, "totalRegistrations")
         = Len(resp.input)
    /\ SumOverTrails(resp.result.byTrail, DOMAIN resp.result.byTrail, "totalHorses")
         = SumField(resp.input, "horseCount")

\* three registrations were processed into two days of one week in two months,
\* one of the days with both trails
C32_Witness ==
  /\ resp.op = "processRegistrations"
  /\ Len(resp.input) = 3
  /\ Len(resp.result.daily) = 2
  /\ Len(resp.result.weekly) = 1
  /\ Len(resp.result.monthly) = 2
  /\ Len(resp.result.daily[1].byTrail) = 2
  /\ resp.result.byTrail["A"].totalRegistrations = 2

\* ===================================================== the debounce timers
\* debounceInvalidateCache with the runtime's timers told apart from the table
\* cacheInvalidationTimers: here `timers` is the table (debounce key -> the
\* handle setTimeout returned) and `calls` holds the timeouts the runtime has
\* pending (handle -> the key its callback closes over and the time it is due).
DebouncedTrails == { TrailIdPool[1], TrailIdPool[2], "" }

\* clearTimeout(handle)
ClearTimeout(queue, handle) == [h \in DOMAIN queue \ {handle} |-> queue[h]]

\* debounceInvalidateCache(trailId): [table, queue]
DebounceScheduleNoClear(table, queue, trailId, t, handle) ==
  [table |-> [k \in DOMAIN table \cup {DebounceKey(trailId)} |->
                IF k = DebounceKey(trailId) THEN handle ELSE table[k]],
   queue |-> [h \in DOMAIN queue \cup {handle} |->
                IF h = handle THEN [key |-> DebounceKey(trailId), trailId |-> trailId,
                                    due |-> t + DEBOUNCE_MS]
                ELSE queue[h]]]
DebounceSchedule(table, queue, trailId, t, handle) ==
  DebounceScheduleNoClear(
    table,
    IF DebounceKey(trailId) \in DOMAIN table
    THEN ClearTimeout(queue, table[DebounceKey(trailId)]) ELSE queue,
    trailId, t, handle)

\* a successful createRegistration reaches debounceInvalidateCache(trailId)
DebounceCall(trailId) ==
  /\ Request
  /\ LET after == DebounceSchedule(timers, calls, trailId, now, ops + 1)
     IN /\ timers' = after.table
        /\ calls' = after.queue
  /\ resp' = [op |-> "debounceInvalidateCache", trailId |-> trailId]
  /\ UNCHANGED <<now, cache, nextCleanup, written, storage, actors, issued, aggTimers,
                 aggLog, latest, muts>>

\* the callback of a pending timeout runs: invalidateAllCaches(trailId), then
\* delete cacheInvalidationTimers[key]
TimeoutFire(handle) ==
  /\ handle \in DOMAIN calls
  /\ calls[handle].due = now
  /\ cache' = InvalidateRegistrationCaches(cache, calls[handle].trailId)
  /\ aggTimers' = TriggerAnalyticsAggregation(aggTimers, now)
  /\ timers' = [k \in DOMAIN timers \ {calls[handle].key} |-> timers[k]]
  /\ calls' = ClearTimeout(calls, handle)
  /\ UNCHANGED <<now, nextCleanup, written, resp, storage, actors, issued, aggLog, ops,
                 latest, muts>>

\* due times of the pending timeouts
TimeoutsDue ==
  { calls[h].due : h \in DOMAIN calls } \cup { aggTimers[i] : i \in 1..Len(aggTimers) }

\* time passes, never past a pending timeout
TimeoutAdvance(d) ==
  /\ d > 0
  /\ now + d <= MaxDebounceTime
  /\ \A due \in TimeoutsDue : now + d <= due
  /\ now' = now + d
  /\ UNCHANGED <<cache, nextCleanup, written, resp, storage, actors, issued, timers,
                 aggTimers, aggLog, calls, ops, latest, muts>>

NextTimers ==
  \/ \E trailId \in DebouncedTrails : DebounceCall(trailId)
  \/ \E handle \in DOMAIN calls : TimeoutFire(handle)
  \/ AggregationFire
  \/ \E d \in {StepMs} \cup { due - now : due \in TimeoutsDue } : TimeoutAdvance(d)

SpecTimers == Init /\ [][NextTimers]_vars

\* the timeouts pending for a debounce key
PendingFor(queue, key) == { h \in DOMAIN queue : queue[h].key = key }

\* C33: after every step, each debounce key has at most one timeout pending,
\* the table has an entry for a key exactly when a timeout for it is pending
\* (and the entry is that timeout's handle), and a pending timeout goes away
\* only by firing when due or by a new timeout for its own key taking its
\* place; a timeout that stays keeps its due time.
C33_DebounceBookkeeping ==
  [][ /\ \A key \in { DebounceKey(t) : t \in DebouncedTrails } :
           /\ Cardinality(PendingFor(calls', key)) <= 1
           /\ (key \in DOMAIN timers') = (PendingFor(calls', key) # {})
           /\ key \in DOMAIN timers' => PendingFor(calls', key) = { timers'[key] }
      /\ \A h \in DOMAIN calls :
           IF h \in DOMAIN calls' THEN calls'[h] = calls[h]
           ELSE \/ calls[h].due = now /\ ops' = ops
                \/ /\ ops' = ops + 1
                   /\ PendingFor(calls', calls[h].key) = { ops' }
                   /\ calls'[ops'].due = now + DEBOUNCE_MS ]_vars

\* the timer of one trail was rescheduled while the timer of another trail,
\* armed before, is still pending with its own due time
C33_Witness ==
  /\ DOMAIN timers = { TrailIdPool[1], TrailIdPool[2] }
  /\ DOMAIN calls = { 2, 3 }
  /\ timers[TrailIdPool[1]] = 3
  /\ timers[TrailIdPool[2]] = 2
  /\ calls[2].due < calls[3].due
  /\ now > calls[2].due - DEBOUNCE_MS

\* ===================================================== a list read, fetch by fetch
\* getAllRegistrations with its awaits: after a cache miss the mappings are
\* listed, every registration actor is fetched, and the list of the documents
\* that came back is cached. Other requests run between the fetches.
FillUpdates == { [horseCount |-> 5] }

\* getAllRegistrations up to the first fetch
ReadStart ==
  /\ Request
  /\ DOMAIN calls = {}
  /\ cache' = CacheAfterGet(cache, "all-registrations", now)
  /\ IF GetFromCache(cache, "all-registrations", now).hit
     THEN /\ resp' = [op |-> "getAllRegistrations", status |-> 200,
                      body |-> GetFromCache(cache, "all-registrations", now).data]
          /\ calls' = calls
     ELSE /\ calls' = (ops + 1) :>
               [pending |-> [i \in 1..Len(StorageList(storage, "registration:")) |->
                               storage[StorageList(storage, "registration:")[i]]],
                registrations |-> <<>>, startedAt |-> Len(muts)]
          /\ resp' = resp
  /\ UNCHANGED <<now, nextCleanup, written, storage, actors, issued, timers, aggTimers,
                 aggLog, latest, muts>>

\* one registration actor answers the fetch
ReadFetch(c) ==
  /\ c \in DOMAIN calls
  /\ calls[c].pending # <<>>
  /\ calls' = (c :> [calls[c] EXCEPT
                       !.pending = Tail(calls[c].pending),
                       !.registrations =
                          IF Head(calls[c].pending) \in DOMAIN actors
                          THEN Append(calls[c].registrations, actors[Head(calls[c].pending)])
                          ELSE calls[c].registrations])
  /\ UNCHANGED <<now, cache, nextCleanup, written, resp, storage, actors, issued, timers,
                 aggTimers, aggLog, ops, latest, muts>>

\* the last batch has settled: setInCache and the response
ReadFinish(c) ==
  /\ c \in DOMAIN calls
  /\ calls[c].pending = <<>>
  /\ cache' = SetInCache(cache, "all-registrations", calls[c].registrations,
                         DEFAULT_CACHE_TTL_MS, now)
  /\ resp' = [op |-> "getAllRegistrations", status |-> 200,
              body |-> calls[c].registrations]
  /\ calls' = EmptyMap
  /\ UNCHANGED <<now, nextCleanup, written, storage, actors, issued, timers, aggTimers,
                 aggLog, ops, latest, muts>>

NextStaleFill ==
  \/ \E data \in NewTrails : CreateTrail(data)
  \/ \E data \in DatedRegistrations : CreateRegistration(data)
  \/ \E id \in RegIds, data \in FillUpdates : UpdateRegistration(id, data)
  \/ \E id \in RegIds : DeleteRegistration(id)
  \/ ReadStart
  \/ \E c \in DOMAIN calls : ReadFetch(c)
  \/ \E c \in DOMAIN calls : ReadFinish(c)
  \/ \E key \in DOMAIN timers : DebounceFire(key)
  \/ AggregationFire
  \/ \E d \in TickSteps : Tick(d)

SpecStaleFill == Init /\ [][NextStaleFill]_vars

\* updateRegistration and deleteRegistration calls, which invalidate before
\* they return, are all that has succeeded since the read began, and there is
\* at least one
InvalidatedSince(startedAt) ==
  /\ startedAt < Len(muts)
  /\ \A i \in (startedAt + 1)..Len(muts) : muts[i].kind \in {"update", "delete"}

\* C34: when getAllRegistrations began its fan-out before a mutation and
\* stores its list after that mutation's invalidation, the list it stores does
\* not omit the mutation: it is the list a read of the present state gives.
C34_NoStaleFill ==
  [][ \A c \in DOMAIN calls :
        (c \notin DOMAIN calls' /\ InvalidatedSince(calls[c].startedAt))
          => cache'["all-registrations"].data
               = AllRegistrationsFanOut(StorageList(storage', "registration:"),
                                        storage', actors') ]_vars

\* ============================================ getAnalytics across its await
\* getAnalytics awaits storage.get('analytics:data') after a cache miss and
\* caches what the get returned when it resumes; aggregations and requests run
\* in between. The read in flight is call 0.
AnalyticsRead == 0

\* getAnalytics up to the await of storage.get
GetAnalyticsStart ==
  /\ Request
  /\ AnalyticsRead \notin DOMAIN calls
  /\ cache' = CacheAfterGet(cache, "analytics-data", now)
  /\ IF GetFromCache(cache, "analytics-data", now).hit
     THEN /\ resp' = [op |-> "getAnalytics", status |-> 200,
                      body |-> GetFromCache(cache, "analytics-data", now).data]
          /\ calls' = calls
     ELSE /\ calls' = [c \in DOMAIN calls \cup {AnalyticsRead} |->
                         IF c = AnalyticsRead
                         THEN [stage |-> "get",
                               storedData |-> IF HasSnapshot THEN <<Snapshot>> ELSE <<>>]
                         ELSE calls[c]]
          /\ resp' = resp
  /\ UNCHANGED <<now, nextCleanup, written, storage, actors, issued, timers, aggTimers,
                 aggLog, latest, muts>>

\* getAnalytics from the await on: the stored data is cached and returned, or,
\* with none, an aggregation runs and its snapshot is read back and cached
GetAnalyticsResume ==
  /\ AnalyticsRead \in DOMAIN calls
  /\ calls[AnalyticsRead].stage = "get"
  /\ IF calls[AnalyticsRead].storedData # <<>>
     THEN /\ cache' = SetInCache(cache, "analytics-data", calls[AnalyticsRead].storedData[1],
                                 ANALYTICS_TTL_MS, now)
          /\ storage' = storage
          /\ resp' = [op |-> "getAnalytics", status |-> 200,
                      body |-> calls[AnalyticsRead].storedData[1]]
     ELSE /\ storage' = StoragePut(storage, "analytics:data",
                                   AnalyticsSnapshot(storage, actors, now))
          /\ cache' = SetInCache(cache, "analytics-data",
                                 AnalyticsSnapshot(storage, actors, now), ANALYTICS_TTL_MS, now)
          /\ resp' = [op |-> "getAnalytics", status |-> 200,
                      body |-> AnalyticsSnapshot(storage, actors, now)]
  /\ calls' = [c \in DOMAIN calls \ {AnalyticsRead} |-> calls[c]]
  /\ UNCHANGED <<now, nextCleanup, written, actors, issued, timers, aggTimers, aggLog, ops,
                 latest, muts>>

NextSnapshotRead ==
  \/ \E data \in NewTrails : CreateTrail(data)
  \/ \E data \in DatedRegistrations : CreateRegistration(data)
  \/ \E id \in RegIds : DeleteRegistration(id)
  \/ \E key \in DOMAIN timers : DebounceFire(key)
  \/ AggregationRead
  \/ \E c \in DOMAIN calls : AggregationWrite(c)
  \/ GetAnalyticsStart
  \/ GetAnalyticsResume
  \/ \E d \in TickSteps : Advance(d, MaxDebounceTime)

SpecSnapshotRead == Init /\ [][NextSnapshotRead]_vars

Absent == ""
MaxViewReads == 2
ViewPages == { 1, 2 }
ViewLimits == { 1, 10 }
ViewTrailFilters == { Absent, "all", "A" }
ViewStartDates == { Absent, "none", "2024-03-01" }
ViewEndDates == { Absent, "none" }
ViewTimezones == { Absent, "UTC" }
ViewRequests ==
  [page : ViewPages, limit : ViewLimits, trail : ViewTrailFilters,
   startDate : ViewStartDates, endDate : ViewEndDates, timezone : ViewTimezones]

\* a < b on strings: by UTF-16 code units, a proper prefix first
CodeUnitOrder == "-0123456789:ABCDEFGHIJKLMNOPQRSTUVWXYZabcdefghijklmnopqrstuvwxyz"
CodeUnit(ch) == CHOOSE i \in 1..Len(CodeUnitOrder) : SubSeq(CodeUnitOrder, i, i) = ch
RECURSIVE StringLess(_, _)
StringLess(a, b) ==
  IF Len(b) = 0 THEN FALSE
  ELSE IF Len(a) = 0 THEN TRUE
  ELSE IF SubSeq(a, 1, 1) # SubSeq(b, 1, 1)
       THEN CodeUnit(SubSeq(a, 1, 1)) < CodeUnit(SubSeq(b, 1, 1))
       ELSE StringLess(SubSeq(a, 2, Len(a)), SubSeq(b, 2, Len(b)))

\* regDate: the ISO date of the timestamp, or with a timezone the date the
\* formatter gives in it (for UTC the same date)
RegDate(timestamp, timezone) == DateParts(timestamp).date

\* `registrations:${page}:${limit}:${trailFilter || 'all'}:${startDate ||
\* 'none'}:${endDate || 'none'}:${timezone || 'UTC'}`
RegistrationsCacheKey(p) ==
  "registrations:" \o ToString(p.page) \o ":" \o ToString(p.limit)
    \o ":" \o (IF p.trail = Absent THEN "all" ELSE p.trail)
    \o ":" \o (IF p.startDate = Absent THEN "none" ELSE p.startDate)
    \o ":" \o (IF p.endDate = Absent THEN "none" ELSE p.endDate)
    \o ":" \o (IF p.timezone = Absent THEN "UTC" ELSE p.timezone)

\* the rows that pass the date range and the trail filter
FilterRows(rows, p) ==
  SelectSeq(rows, LAMBDA r :
    /\ ~(p.startDate # Absent /\ StringLess(RegDate(r.timestamp, p.timezone), p.startDate))
    /\ ~(p.endDate # Absent /\ StringLess(p.endDate, RegDate(r.timestamp, p.timezone)))
    /\ ~(p.trail # Absent /\ r.trail # p.trail))

\* the response a cache miss computes
RegistrationDataResponse(st, a, trailsMap, p) ==
  [filters |-> [trail |-> p.trail, startDate |-> p.startDate, endDate |-> p.endDate,
                timezone |-> p.timezone]]
    @@ Paginate(SortNewestFirst(FilterRows(
                  RegistrationRows(StorageList(st, "registration:"), st, a, trailsMap), p)),
                p.page, p.limit)

\* getRegistrationData(page, limit, trailFilter, startDate, endDate, timezone)
GetFilteredRegistrationData(request) ==
  /\ ops < MaxViewReads
  /\ ops' = ops + 1
  /\ LET p == [request EXCEPT !.page = ValidPage(request.page),
                              !.limit = ValidLimit(request.limit)]
         cacheKey == RegistrationsCacheKey(p)
         got == GetFromCache(cache, cacheKey, now)
         c1 == CacheAfterGet(cache, cacheKey, now)
         gotMap == GetFromCache(c1, "trails-name-map", now)
         c2 == CacheAfterGet(c1, "trails-name-map", now)
         trailsMap == IF gotMap.hit THEN gotMap.data ELSE TrailsNameMap(storage, actors)
         c3 == IF gotMap.hit THEN c2
               ELSE SetInCache(c2, "trails-name-map", trailsMap, NAME_MAP_TTL_MS, now)
         response == RegistrationDataResponse(storage, actors, trailsMap, p)
     IN IF got.hit
        THEN /\ cache' = c1
             /\ resp' = [op |-> "getRegistrationData", status |-> 200, body |-> got.data,
                         request |-> request, hit |-> TRUE]
        ELSE /\ cache' = SetInCache(c3, cacheKey, response, PAGINATED_TTL_MS, now)
             /\ resp' = [op |-> "getRegistrationData", status |-> 200, body |-> response,
                         request |-> request, hit |-> FALSE]
  /\ UNCHANGED <<now, nextCleanup, written, storage, actors, issued, timers, aggTimers,
                 aggLog, calls, latest, muts>>

\* one trail, named A or all, with a registration on 2024-02-26 and one on
\* 2024-03-04
InitView ==
  /\ now = 0
  /\ cache = EmptyMap
  /\ nextCleanup = CLEANUP_INTERVAL_MS
  /\ written = EmptyMap
  /\ resp = [op |-> "init"]
  /\ timers = EmptyMap
  /\ aggTimers = <<>>
  /\ aggLog = <<>>
  /\ calls = EmptyMap
  /\ ops = 0
  /\ latest = EmptyMap
  /\ muts = <<>>
  /\ issued = [trail |-> 1, registration |-> 2, template |-> 0]
  /\ storage = (TrailKey("t1") :> HandleOf("t1")) @@ (RegKey("r1") :> HandleOf("r1"))
                 @@ (RegKey("r2") :> HandleOf("r2"))
                 @@ (TrailRegsKey("t1") :> <<"r1", "r2">>)
  /\ \E name \in {"A", "all"} :
       actors = (HandleOf("t1") :> [id |-> "t1", name |-> name, active |-> TRUE])
                  @@ (HandleOf("r1") :> [id |-> "r1", trailId |-> "t1", riderName |-> "x",
                                         horseCount |-> 2, timestamp |-> 0])
                  @@ (HandleOf("r2") :> [id |-> "r2", trailId |-> "t1", riderName |-> "y",
                                         horseCount |-> 1, timestamp |-> 7 * MS_PER_DAY])

NextView == \E request \in ViewRequests : GetFilteredRegistrationData(request)

SpecView == InitView /\ [][NextView]_vars

\* C36: getRegistrationData requests that differ in page, limit, trail filter,
\* start date, end date or timezone (an absent parameter against the literals
\* all, none or UTC included) never share a cache key, so that a request answered
\* from the cache gets the response a cache miss computes for its parameters.
C36_KeysInjective ==
  [][ \A request \in ViewRequests :
        (resp'.op = "getRegistrationData" /\ ops' = ops + 1 /\ resp'.request = request)
          => resp'.body = RegistrationDataResponse(storage, actors,
                                                   TrailsNameMap(storage, actors), request)
     ]_vars

\* ------------------------------------------------ a rejected template deletion
\* C37: when deleteTemplate targets a template whose document has isDefault =
\* true, the actor rejects with status 400, and afterwards the template:<id>
\* mapping is still there and the template's document is still in its actor, so
\* that getTemplate(id) still returns the template.
C37_RejectedDeleteChangesNothing ==
  [][ (resp'.op = "deleteTemplate" /\ ops' = ops + 1
         /\ TemplateKey(resp'.id) \in DOMAIN storage
         /\ storage[TemplateKey(resp'.id)] \in DOMAIN actors
         /\ actors[storage[TemplateKey(resp'.id)]].isDefault)
        => /\ resp'.status = 400
           /\ TemplateKey(resp'.id) \in DOMAIN storage'
           /\ storage'[TemplateKey(resp'.id)] = storage[TemplateKey(resp'.id)]
           /\ actors' = actors ]_vars

\* ================================================== flushAllRegistrations
\* the registration mappings whose actor's DELETE fetch throws
FlushFaults == { {} } \cup { {RegKey(id)} : id \in RegIds }

\* the storage after steps 3 and 4: the mapping of every registration whose
\* fetch returned is deleted, and every trail's list is put empty
FlushedStorage(st, failed) ==
  [k \in { x \in DOMAIN st : StartsWith(x, "registration:") => x \in failed } |->
     IF StartsWith(k, "trail_registrations:") THEN <<>> ELSE st[k]]

\* DELETE /registrations/flush-all
FlushAllRegistrations(failed) ==
  /\ Request
  /\ failed \subseteq DOMAIN storage
  /\ storage' = FlushedStorage(storage, failed)
  /\ actors' = [h \in DOMAIN actors \ { storage[k] : k \in { x \in DOMAIN storage \ failed :
                                                     StartsWith(x, "registration:") } } |->
                  actors[h]]
  /\ cache' = InvalidateRegistrationCaches(cache, "")
  /\ aggTimers' = TriggerAnalyticsAggregation(aggTimers, now)
  /\ resp' = [op |-> "flushAllRegistrations", status |-> 200,
              body |-> [success |-> TRUE], failed |-> failed]
  /\ latest' = LatestDrop(latest, { k \in DOMAIN storage \ failed :
                                      StartsWith(k, "registration:") })
  /\ muts' = Append(muts, Mutation("flush", "", "", now))
  /\ UNCHANGED <<now, nextCleanup, written, issued, timers, aggLog, calls>>

NextFlush ==
  \/ \E data \in NewTrails : CreateTrail(data)
  \/ \E data \in NewRegistrations : CreateRegistration(data)
  \/ GetAllTrails
  \/ GetSummaryStatistics
  \/ \E failed \in FlushFaults : FlushAllRegistrations(failed)
  \/ \E key \in DOMAIN timers : DebounceFire(key)
  \/ AggregationFire
  \/ \E d \in TickSteps : Tick(d)

SpecFlush == Init /\ [][NextFlush]_vars

\* the last registration mutation was a flush in which no actor call failed
Flushed ==
  /\ muts # <<>>
  /\ muts[Len(muts)].kind = "flush"
  /\ \A k \in DOMAIN storage : ~StartsWith(k, "registration:")

\* C38: after flushAllRegistrations has returned success, no registration:<id>
\* mapping remains and every trail_registrations list is empty, and a following
\* getAllTrails or getSummaryStatistics reports registrationCount 0 and
\* horseCount 0 for every trail, also when trail-reg-count:<T> or
\* trail-horse-count:<T> were cached before the flush.
C38_FlushResetsCounts ==
  [][ /\ (ops' = ops + 1 /\ resp'.op = "flushAllRegistrations" /\ resp'.status = 200
            /\ resp'.failed = {})
        => \A k \in DOMAIN storage' :
             /\ ~StartsWith(k, "registration:")
             /\ StartsWith(k, "trail_registrations:") => storage'[k] = <<>>
      /\ (Flushed /\ ops' = ops + 1 /\ resp'.op = "getAllTrails")
        => \A i \in 1..Len(resp'.body) :
             resp'.body[i].registrationCount = 0 /\ resp'.body[i].horseCount = 0
      /\ (Flushed /\ ops' = ops + 1 /\ resp'.op = "getSummaryStatistics")
        => \A n \in DOMAIN resp'.body.registrationsByTrail :
             resp'.body.registrationsByTrail[n] = 0 ]_vars

\* ====================================================== referential integrity
\* no operation of the coordinator is suspended at an await
Idle == DOMAIN calls = {}

\* the keys of one kind of mapping
KeysWithPrefix(st, prefix) == { k \in DOMAIN st : StartsWith(k, prefix) }
\* the IDs a list holds
Listed(list) == { list[i] : i \in 1..Len(list) }

\* C39: in every state where no operation is in progress, also after operations
\* in which an actor call failed or returned non-200, every ID listed in some
\* trail_registrations:<T> has a registration:<id> mapping, every
\* registration:<id> mapping is listed in the trail_registrations list of a trail
\* that still has a trail:<T> mapping, and the actor of every mapping holds a
\* document.
C39_ReferentialIntegrity ==
  Idle =>
    /\ \A k \in KeysWithPrefix(storage, "trail_registrations:") :
         \A id \in Listed(storage[k]) : RegKey(id) \in DOMAIN storage
    /\ \A r \in KeysWithPrefix(storage, "registration:") :
         \E k \in KeysWithPrefix(storage, "trail_registrations:") :
           /\ SubSeq(r, 14, Len(r)) \in Listed(storage[k])
           /\ TrailKey(SubSeq(k, 21, Len(k))) \in DOMAIN storage
    /\ \A m \in KeysWithPrefix(storage, "registration:")
                  \cup KeysWithPrefix(storage, "trail:")
                  \cup KeysWithPrefix(storage, "template:") :
         storage[m] \in DOMAIN actors

=============================================================================
